---------------------------- MODULE Spec2Model ----------------------------
(***************************************************************************)
(* A model of protoc-gen-solidity: the type-mapping table and tag          *)
(* computation (generator/type-map.ts), the descriptor walk and the plugin *)
(* boundary (plugin.ts), the per-field code generator (generator/field.ts) *)
(* and the wire primitives the emitted code calls (ProtobufRuntime.sol).   *)
(*                                                                         *)
(* Emitted Solidity is modelled as structured fragments (one record per    *)
(* emitted statement group) and given the meaning of the statements        *)
(* field.ts writes.  An EVM word is the set of positions of its 1 bits     *)
(* (0 = least significant), so 64-bit and 256-bit arithmetic is exact.     *)
(* A byte is an integer 0..255 and a buffer is a sequence of bytes.        *)
(***************************************************************************)
EXTENDS Integers, Sequences, FiniteSets, TLC

VARIABLES op, arg, res, logLevel, pc, mtype, src, data, pos, dmsg, iters

vars == <<op, arg, res, logLevel, pc, mtype, src, data, pos, dmsg, iters>>

\* the variables of the decode machine, left alone by the one-step operations
codecVars == <<pc, mtype, src, data, pos, dmsg, iters>>

\* the variables of the one-step operations, left alone by the decode machine
callVars == <<op, arg, res, logLevel>>

-----------------------------------------------------------------------------
(* Bounds of the model *)

\* longest member sequence (repeated field, map) of an encoded message
MaxElems == 2

\* most wire items in a hand-built input buffer
MaxItems == 3

\* field numbers 1 .. MaxSmallNumber are tried beside the powers of two
MaxSmallNumber == 16

\* longest run of filler bytes before an encoded scalar
MaxPrefix == 1

\* most schema files in a request
MaxFiles == 2

\* most fields in a buffer that holds fields its message does not declare
MaxUnknown == 2

-----------------------------------------------------------------------------
(* EVM words *)

\* width of an EVM word (uint256)
WordBits == 256

BitPos == 0 .. (WordBits - 1)

Pow2(n) == 2 ^ n

\* the word of a natural number below 2^31
FromNat(n) == {i \in 0 .. 30 : (n \div Pow2(i)) % 2 = 1}

RECURSIVE SumBits(_)
SumBits(w) ==
  IF w = {} THEN 0
  ELSE LET i == CHOOSE x \in w : TRUE IN Pow2(i) + SumBits(w \ {i})

\* larger than every buffer length of the model
Huge == Pow2(30)

\* the natural number of a word, saturated at Huge
ToNat(w) == IF \E i \in w : i >= 30 THEN Huge ELSE SumBits(w)

And(a, b) == a \cap b
Or(a, b) == a \cup b
Xor(a, b) == (a \ b) \cup (b \ a)
Shl(k, a) == {i + k : i \in {j \in a : j + k < WordBits}}
Shr(k, a) == {i - k : i \in {j \in a : j >= k}}
Sar(k, a) ==
  Shr(k, a) \cup (IF (WordBits - 1) \in a THEN (WordBits - k) .. (WordBits - 1) ELSE {})

MinBit(w) == CHOOSE i \in w : \A j \in w : i <= j
MaxBit(w) == CHOOSE i \in w : \A j \in w : i >= j

\* sub(0, a): two's complement negation
Neg(a) ==
  IF a = {} THEN {}
  ELSE {MinBit(a)} \cup {i \in BitPos : i > MinBit(a) /\ i \notin a}

\* gt(a, b): unsigned comparison
Gt(a, b) == a # b /\ MaxBit(Xor(a, b)) \in a

AllOnes == BitPos

\* uintN(w), intN(w): the explicit conversions (truncate, then zero or sign extend)
ToUint(n, w) == w \cap (0 .. (n - 1))
ToInt(n, w) ==
  LET low == w \cap (0 .. (n - 1))
  IN  IF (n - 1) \in w THEN low \cup ((n - 1) .. (WordBits - 1)) ELSE low

IsUint(n, w) == w \subseteq 0 .. (n - 1)
IsInt(n, w) == ToInt(n, w) = w

-----------------------------------------------------------------------------
(* Bytes and buffers *)

Byte == 0 .. 255

\* bytes1(uint8(w))
ByteOf(w) == SumBits(w \cap (0 .. 7))

\* byte(0, mload(ptr)) of a buffer: index is 0-based
ByteAt(buf, i) == buf[i + 1]

InBuf(buf, i) == i >= 0 /\ i < Len(buf)

\* what a runtime call gives back: it returns, reverts, or reads memory past the
\* end of the buffer (no primitive checks the cursor against data.length)
Ok(v, p) == [st |-> "ok", val |-> v, pos |-> p]
Revert == [st |-> "revert", val |-> {}, pos |-> 0]
Overread == [st |-> "overread", val |-> {}, pos |-> 0]

-----------------------------------------------------------------------------
(* ProtobufRuntime.sol: the wire primitives *)

RECURSIVE VarintBytes(_)
\* the assembly loop of _encode_varint: seven bits a byte, low group first
VarintBytes(v) ==
  IF Gt(v, FromNat(127))
  THEN <<ByteOf(Or(And(v, FromNat(127)), FromNat(128)))>> \o VarintBytes(Shr(7, v))
  ELSE <<ByteOf(And(v, FromNat(127)))>>

_encode_varint(value) ==
  IF ~Gt(value, FromNat(127)) THEN <<ByteOf(value)>> ELSE VarintBytes(value)

_encode_key(tag) == _encode_varint(tag)

RECURSIVE DecodeVarintLoop(_, _, _, _)
\* the assembly loop of _decode_varint; the result is not cut to 64 bits
DecodeVarintLoop(buf, ptr, result, shift) ==
  IF ~InBuf(buf, ptr) THEN Overread
  ELSE LET b == FromNat(ByteAt(buf, ptr))
           r == Or(result, Shl(shift, And(b, FromNat(127))))
       IN  IF And(b, FromNat(128)) = {} THEN Ok(r, ptr + 1)
           ELSE IF shift + 7 > 63 THEN Revert
           ELSE DecodeVarintLoop(buf, ptr + 1, r, shift + 7)

_decode_varint(buf, p) == DecodeVarintLoop(buf, p, {}, 0)

_decode_key(buf, p) == _decode_varint(buf, p)

_encode_bool(value) == IF value THEN <<1>> ELSE <<0>>

_decode_bool(buf, p) ==
  LET r == _decode_varint(buf, p)
  IN  IF r.st = "ok" THEN Ok(ToUint(64, r.val) # {}, r.pos) ELSE r

_encode_zigzag32(value) ==
  LET encoded == Xor(Shl(1, value), Sar(31, value))
  IN  _encode_varint(ToUint(32, encoded))

_decode_zigzag32(buf, p) ==
  LET r == _decode_varint(buf, p)
      n == ToUint(32, r.val)
  IN  IF r.st = "ok"
      THEN Ok(Xor(Shr(1, n), Neg(And(n, FromNat(1)))), r.pos)
      ELSE r

_encode_zigzag64(value) ==
  LET encoded == Xor(Shl(1, value), Sar(63, value))
  IN  _encode_varint(encoded)

_decode_zigzag64(buf, p) ==
  LET r == _decode_varint(buf, p)
  IN  IF r.st = "ok"
      THEN Ok(Xor(Shr(1, r.val), Neg(And(r.val, FromNat(1)))), r.pos)
      ELSE r

\* mstore8(ptr + k, and(shr(8k, value), 0xFF)) for k = 0 .. n-1
FixedBytes(n, value) ==
  [k \in 1 .. n |-> ByteOf(And(Shr(8 * (k - 1), value), FromNat(255)))]

RECURSIVE OrBytes(_, _, _)
\* or(byte(0, mload(ptr)), shl(8, byte(0, mload(ptr + 1))), ...) over n bytes
OrBytes(buf, p, n) ==
  IF n = 0 THEN {}
  ELSE Or(OrBytes(buf, p, n - 1), Shl(8 * (n - 1), FromNat(ByteAt(buf, p + n - 1))))

_encode_fixed64(value) == FixedBytes(8, value)

_decode_fixed64(buf, p) ==
  IF p + 8 > Len(buf) THEN Overread ELSE Ok(OrBytes(buf, p, 8), p + 8)

_encode_sfixed64(value) == _encode_fixed64(ToUint(64, value))

_decode_sfixed64(buf, p) ==
  LET r == _decode_fixed64(buf, p)
  IN  IF r.st = "ok" THEN Ok(ToInt(64, r.val), r.pos) ELSE r

_encode_fixed32(value) == FixedBytes(4, value)

_decode_fixed32(buf, p) ==
  IF p + 4 > Len(buf) THEN Overread ELSE Ok(OrBytes(buf, p, 4), p + 4)

_encode_sfixed32(value) == _encode_fixed32(ToUint(32, value))

_decode_sfixed32(buf, p) ==
  LET r == _decode_fixed32(buf, p)
  IN  IF r.st = "ok" THEN Ok(ToInt(32, r.val), r.pos) ELSE r

\* a copy that stops one byte early: a wrong _slice, against which C7 is tested
SliceShort(buf, start, end) == SubSeq(buf, start + 1, end - 1)

\* require(end >= start && end <= data.length), then the copy
SliceOk(buf, start, end) == end >= start /\ end <= Len(buf)

_slice(buf, start, end) == SubSeq(buf, start + 1, end)

_encode_bytes(value) == _encode_varint(FromNat(Len(value))) \o value

_decode_bytes(buf, p) ==
  LET r == _decode_varint(buf, p)
      len == ToNat(ToUint(64, r.val))
  IN  IF r.st # "ok" THEN r
      ELSE IF ~SliceOk(buf, r.pos, r.pos + len) THEN Revert
      ELSE Ok(_slice(buf, r.pos, r.pos + len), r.pos + len)

_encode_string(value) == _encode_bytes(value)

_decode_string(buf, p) == _decode_bytes(buf, p)

\* a skip that steps over the length of a length-delimited field but not over
\* its payload: a wrong _skip_field, against which C8 is tested
SkipNoPayload(buf, p, wireType) ==
  IF wireType = 0 \/ wireType = 2
  THEN LET r == _decode_varint(buf, p) IN IF r.st = "ok" THEN Ok({}, r.pos) ELSE r
  ELSE IF wireType = 1 THEN Ok({}, p + 8)
  ELSE IF wireType = 5 THEN Ok({}, p + 4)
  ELSE Revert

\* the cursor after an unknown field of the given wire type (a number 0 .. 7)
_skip_field(buf, p, wireType) ==
  IF wireType = 0
  THEN LET r == _decode_varint(buf, p) IN IF r.st = "ok" THEN Ok({}, r.pos) ELSE r
  ELSE IF wireType = 1 THEN Ok({}, p + 8)
  ELSE IF wireType = 2
  THEN LET r == _decode_varint(buf, p)
       IN  IF r.st = "ok" THEN Ok({}, r.pos + ToNat(ToUint(64, r.val))) ELSE r
  ELSE IF wireType = 5 THEN Ok({}, p + 4)
  ELSE Revert

-----------------------------------------------------------------------------
(* generator/type-map.ts *)

\* enum WireType
Varint == 0
Fixed64 == 1
LengthDelimited == 2
Fixed32 == 5

WireTypes == {Varint, Fixed64, LengthDelimited, Fixed32}

SolTypeInfo(solType, wireType, encodeFunc, decodeFunc, defaultValue) ==
  [solType |-> solType, wireType |-> wireType, encodeFunc |-> encodeFunc,
   decodeFunc |-> decodeFunc, defaultValue |-> defaultValue]

\* FieldDescriptorProto.Type -> Solidity metadata; 10 (group) has no entry
PROTO_TYPE_MAP ==
  (1 :> SolTypeInfo("int64", Fixed64, "_encode_fixed64", "_decode_fixed64", "0")) @@
  (2 :> SolTypeInfo("int32", Fixed32, "_encode_fixed32", "_decode_fixed32", "0")) @@
  (3 :> SolTypeInfo("int64", Varint, "_encode_varint", "_decode_varint", "0")) @@
  (4 :> SolTypeInfo("uint64", Varint, "_encode_varint", "_decode_varint", "0")) @@
  (5 :> SolTypeInfo("int32", Varint, "_encode_varint", "_decode_varint", "0")) @@
  (6 :> SolTypeInfo("uint64", Fixed64, "_encode_fixed64", "_decode_fixed64", "0")) @@
  (7 :> SolTypeInfo("uint32", Fixed32, "_encode_fixed32", "_decode_fixed32", "0")) @@
  (8 :> SolTypeInfo("bool", Varint, "_encode_bool", "_decode_bool", "false")) @@
  (9 :> SolTypeInfo("string", LengthDelimited, "_encode_string", "_decode_string", "\"\"")) @@
  (11 :> SolTypeInfo("", LengthDelimited, "", "", "")) @@
  (12 :> SolTypeInfo("bytes", LengthDelimited, "_encode_bytes", "_decode_bytes", "\"\"")) @@
  (13 :> SolTypeInfo("uint32", Varint, "_encode_varint", "_decode_varint", "0")) @@
  (14 :> SolTypeInfo("uint64", Varint, "_encode_varint", "_decode_varint", "0")) @@
  (15 :> SolTypeInfo("int32", Fixed32, "_encode_sfixed32", "_decode_sfixed32", "0")) @@
  (16 :> SolTypeInfo("int64", Fixed64, "_encode_sfixed64", "_decode_sfixed64", "0")) @@
  (17 :> SolTypeInfo("int32", Varint, "_encode_zigzag32", "_decode_zigzag32", "0")) @@
  (18 :> SolTypeInfo("int64", Varint, "_encode_zigzag64", "_decode_zigzag64", "0"))

\* PROTO_TYPE_MAP[t] is not undefined
HasEntry(t) == t \in DOMAIN PROTO_TYPE_MAP

\* A dotted name is the sequence of its segments ("a.B" is <<"a", "B">>, ".a.B" is
\* <<"", "a", "B">>, "" is <<"">>); undefined is the empty sequence.
Undefined == <<>>

Truthy(s) == s # Undefined /\ s # <<"">>

\* s.replace(/^\./, "")
StripLeadingDot(s) == IF Len(s) > 1 /\ s[1] = "" THEN Tail(s) ELSE s

Returned(v) == [st |-> "ok", out |-> v]
Thrown(m) == [st |-> "throw", out |-> m]

\* a lookup that takes the type name, when there is one, whatever the code
ResolveCoerced(fieldType, typeName) ==
  IF Truthy(typeName)
  THEN LET parts == StripLeadingDot(typeName) IN Returned(parts[Len(parts)])
  ELSE IF ~HasEntry(fieldType)
  THEN Thrown(<<"Unsupported protobuf field type: ", fieldType>>)
  ELSE Returned(PROTO_TYPE_MAP[fieldType].solType)

resolveSolType(fieldType, typeName) ==
  IF fieldType = 11 /\ Truthy(typeName)
  THEN LET parts == StripLeadingDot(typeName) IN Returned(parts[Len(parts)])
  ELSE IF ~HasEntry(fieldType)
  THEN Thrown(<<"Unsupported protobuf field type: ", fieldType>>)
  ELSE Returned(PROTO_TYPE_MAP[fieldType].solType)

\* a JavaScript int32 as a word, and back
FromInt(n) == IF n < 0 THEN AllOnes \ FromNat(-(n + 1)) ELSE FromNat(n)
IntOf(w) ==
  IF (WordBits - 1) \in w
  THEN (SumBits(w \cap (0 .. 30)) - Pow2(30)) - Pow2(30)
  ELSE SumBits(w \cap (0 .. 30))

\* a << k, a >> k, a | b, a & b on JavaScript numbers: 32-bit signed results
JsShl(a, k) == IntOf(ToInt(32, Shl(k, FromInt(a))))
JsSar(a, k) == IntOf(ToInt(32, Sar(k, FromInt(a))))
JsOr(a, b) == IntOf(ToInt(32, Or(FromInt(a), FromInt(b))))
JsAnd(a, b) == IntOf(ToInt(32, And(FromInt(a), FromInt(b))))

fieldTag(fieldNumber, wireType) == JsOr(JsShl(fieldNumber, 3), wireType)

-----------------------------------------------------------------------------
(* Calls of the runtime primitives from emitted code *)

\* parameter type of each encode primitive, return type of each decode primitive
PrimType ==
  [f \in {"_encode_varint", "_decode_varint", "_encode_fixed64", "_decode_fixed64"}
     |-> "uint64"] @@
  [f \in {"_encode_fixed32", "_decode_fixed32"} |-> "uint32"] @@
  [f \in {"_encode_bool", "_decode_bool"} |-> "bool"] @@
  [f \in {"_encode_zigzag32", "_decode_zigzag32", "_encode_sfixed32", "_decode_sfixed32"}
     |-> "int32"] @@
  [f \in {"_encode_zigzag64", "_decode_zigzag64", "_encode_sfixed64", "_decode_sfixed64"}
     |-> "int64"] @@
  [f \in {"_encode_string", "_decode_string"} |-> "string"] @@
  [f \in {"_encode_bytes", "_decode_bytes"} |-> "bytes"]

IntTypes == {"uint32", "uint64", "int32", "int64"}

\* the values of a Solidity integer type, as words
InRange(ty, w) ==
  CASE ty = "uint32" -> IsUint(32, w)
    [] ty = "uint64" -> IsUint(64, w)
    [] ty = "int32" -> IsInt(32, w)
    [] ty = "int64" -> IsInt(64, w)

\* the compiler's cleanup of the higher-order bits of a value of type ty
Clean(ty, w) ==
  CASE ty = "uint32" -> ToUint(32, w)
    [] ty = "uint64" -> ToUint(64, w)
    [] ty = "int32" -> ToInt(32, w)
    [] ty = "int64" -> ToInt(64, w)
    [] OTHER -> w

\* a value v of type ty is a value of type want (no conversion is emitted)
Accepts(want, ty, v) ==
  IF want \in IntTypes THEN ty \in IntTypes /\ InRange(want, v) ELSE want = ty

ApplyEncode(f, v) ==
  CASE f = "_encode_varint" -> _encode_varint(v)
    [] f = "_encode_fixed64" -> _encode_fixed64(v)
    [] f = "_encode_fixed32" -> _encode_fixed32(v)
    [] f = "_encode_bool" -> _encode_bool(v)
    [] f = "_encode_zigzag32" -> _encode_zigzag32(v)
    [] f = "_encode_zigzag64" -> _encode_zigzag64(v)
    [] f = "_encode_sfixed32" -> _encode_sfixed32(v)
    [] f = "_encode_sfixed64" -> _encode_sfixed64(v)
    [] f = "_encode_string" -> _encode_string(v)
    [] f = "_encode_bytes" -> _encode_bytes(v)

ApplyDecode(f, buf, p) ==
  CASE f = "_decode_varint" -> _decode_varint(buf, p)
    [] f = "_decode_fixed64" -> _decode_fixed64(buf, p)
    [] f = "_decode_fixed32" -> _decode_fixed32(buf, p)
    [] f = "_decode_bool" -> _decode_bool(buf, p)
    [] f = "_decode_zigzag32" -> _decode_zigzag32(buf, p)
    [] f = "_decode_zigzag64" -> _decode_zigzag64(buf, p)
    [] f = "_decode_sfixed32" -> _decode_sfixed32(buf, p)
    [] f = "_decode_sfixed64" -> _decode_sfixed64(buf, p)
    [] f = "_decode_string" -> _decode_string(buf, p)
    [] f = "_decode_bytes" -> _decode_bytes(buf, p)

Rejected == [st |-> "rejected", val |-> {}, pos |-> 0]

\* ProtobufRuntime.<f>(x) for a member x of type ty holding v: the bytes, or none
\* when v is no value of the primitive's parameter type
CallEncode(f, ty, v) ==
  IF Accepts(PrimType[f], ty, v)
  THEN [st |-> "ok", bytes |-> ApplyEncode(f, v)]
  ELSE [st |-> "rejected", bytes |-> <<>>]

\* (x, pos) = ProtobufRuntime.<f>(data, pos) for a member x of type ty
CallDecode(f, ty, buf, p) ==
  LET r == ApplyDecode(f, buf, p)
      v == Clean(PrimType[f], r.val)
  IN  IF r.st # "ok" THEN r
      ELSE IF ~Accepts(ty, PrimType[f], v) THEN Rejected
      ELSE Ok(v, r.pos)

-----------------------------------------------------------------------------
(* util/names.ts *)

\* An identifier is the sequence of its characters.
Lower ==
  <<"a", "b", "c", "d", "e", "f", "g", "h", "i", "j", "k", "l", "m",
    "n", "o", "p", "q", "r", "s", "t", "u", "v", "w", "x", "y", "z">>
Upper ==
  <<"A", "B", "C", "D", "E", "F", "G", "H", "I", "J", "K", "L", "M",
    "N", "O", "P", "Q", "R", "S", "T", "U", "V", "W", "X", "Y", "Z">>

IsLower(c) == \E i \in 1 .. Len(Lower) : Lower[i] = c

\* c.toUpperCase()
ToUpperCase(c) ==
  IF IsLower(c) THEN Upper[CHOOSE i \in 1 .. Len(Lower) : Lower[i] = c] ELSE c

RECURSIVE snakeToCamel(_)
\* name.replace(/_([a-z])/g, (_, c) => c.toUpperCase())
snakeToCamel(name) ==
  IF name = <<>> THEN <<>>
  ELSE IF Len(name) >= 2 /\ name[1] = "_" /\ IsLower(name[2])
  THEN <<ToUpperCase(name[2])>> \o snakeToCamel(SubSeq(name, 3, Len(name)))
  ELSE <<name[1]>> \o snakeToCamel(Tail(name))

\* `${messageName}Codec`
codecLibName(messageName) == <<messageName, "Codec">>

-----------------------------------------------------------------------------
(* generator/field.ts *)

\* interface FieldInfo; an absent typeName or mapEntry is Undefined
FieldInfo(name, number, type, typeName, label, oneofIndex, mapEntry) ==
  [name |-> name, number |-> number, type |-> type, typeName |-> typeName,
   label |-> label, oneofIndex |-> oneofIndex, mapEntry |-> mapEntry]

MapEntry(keyType, valueType, valueTypeName) ==
  [keyType |-> keyType, valueType |-> valueType, valueTypeName |-> valueTypeName]

isRepeated(field) == field.label = 3

isMessage(field) == field.type = 11

\* one emitted struct member: `<type> <name>;` or `<type>[] <name>;`
Member(solType, array, name) == [type |-> solType, array |-> array, name |-> name]

KeysSuffix == <<"_", "k", "e", "y", "s">>
ValuesSuffix == <<"_", "v", "a", "l", "u", "e", "s">>

genStructMember(field) ==
  LET solName == snakeToCamel(field.name)
      solType == resolveSolType(field.type, field.typeName)
  IN  IF solType.st = "throw" THEN solType
      ELSE IF field.mapEntry # Undefined
      THEN LET keyType == resolveSolType(field.mapEntry.keyType, Undefined)
               valType == resolveSolType(field.mapEntry.valueType,
                                         field.mapEntry.valueTypeName)
           IN  IF keyType.st = "throw" THEN keyType
               ELSE IF valType.st = "throw" THEN valType
               ELSE Returned(<<Member(keyType.out, TRUE, solName \o KeysSuffix),
                               Member(valType.out, TRUE, solName \o ValuesSuffix)>>)
      ELSE Returned(<<Member(solType.out, isRepeated(field), solName)>>)

\* An emitted number: `0x${tag.toString(16)}` (hex) or `${tag}` (decimal), kept as
\* its sign and the word of its magnitude.
Literal(n, hex) ==
  [neg |-> n < 0, mag |-> IF n < 0 THEN Neg(FromInt(n)) ELSE FromInt(n), hex |-> hex]

\* what Solidity reads the literal as: "0x-8" is no number
LiteralOk(lit) == ~(lit.hex /\ lit.neg)
LiteralWord(lit) == IF lit.neg THEN Neg(lit.mag) ELSE lit.mag

\* One emitted fragment, encode statements or a decode case.  kind is "todo" (the
\* placeholder comment), "scalar", "message", "repeated" or "map"; the fields a
\* kind does not use are empty.
Frag(kind, tag, member, func, codec, keyTag, keyFunc, valTag, keyType, valType) ==
  [kind |-> kind, tag |-> tag, member |-> member, func |-> func, codec |-> codec,
   keyTag |-> keyTag, keyFunc |-> keyFunc, valTag |-> valTag,
   keyType |-> keyType, valType |-> valType, ftype |-> 0]

NoLit == Literal(0, FALSE)

\* `// TODO: unsupported field type ${field.type} for ${field.name}`
TodoFrag(field) ==
  [Frag("todo", NoLit, field.name, "", "", NoLit, "", NoLit, "", "")
     EXCEPT !.ftype = field.type]

TypeError(prop) == Thrown(<<"Cannot read properties of undefined (reading '", prop, "')">>)

genScalarEncode(solName, typeInfo, tagHex) ==
  Returned(Frag("scalar", tagHex, solName, typeInfo.encodeFunc, "",
                NoLit, "", NoLit, "", ""))

genMessageEncode(field, solName, tagHex) ==
  LET t == resolveSolType(field.type, field.typeName)
  IN  IF t.st = "throw" THEN t
      ELSE Returned(Frag("message", tagHex, solName, "", codecLibName(t.out),
                         NoLit, "", NoLit, "", ""))

genRepeatedEncode(field, solName, typeInfo, tagHex) ==
  IF isMessage(field)
  THEN LET t == resolveSolType(field.type, field.typeName)
       IN  IF t.st = "throw" THEN t
           ELSE Returned(Frag("repeated", tagHex, solName, "", codecLibName(t.out),
                              NoLit, "", NoLit, "", ""))
  ELSE Returned(Frag("repeated", tagHex, solName, typeInfo.encodeFunc, "",
                     NoLit, "", NoLit, "", ""))

genMapEncode(field, tagHex) ==
  LET solName == snakeToCamel(field.name)
      me == field.mapEntry
  IN  IF ~HasEntry(me.keyType) THEN TypeError("wireType")
      ELSE LET keyInfo == PROTO_TYPE_MAP[me.keyType]
               keyTag == Literal(fieldTag(1, keyInfo.wireType), FALSE)
           IN  IF me.valueType = 11
               THEN LET t == resolveSolType(me.valueType, me.valueTypeName)
                    IN  Returned(Frag("map", tagHex, solName, "", codecLibName(t.out),
                                      keyTag, keyInfo.encodeFunc,
                                      Literal(fieldTag(2, LengthDelimited), FALSE), "", ""))
               ELSE IF ~HasEntry(me.valueType) THEN TypeError("wireType")
               ELSE LET valInfo == PROTO_TYPE_MAP[me.valueType]
                    IN  Returned(Frag("map", tagHex, solName, valInfo.encodeFunc, "",
                                      keyTag, keyInfo.encodeFunc,
                                      Literal(fieldTag(2, valInfo.wireType), FALSE), "", ""))

genFieldEncode(field) ==
  IF ~HasEntry(field.type) THEN Returned(TodoFrag(field))
  ELSE LET solName == snakeToCamel(field.name)
           typeInfo == PROTO_TYPE_MAP[field.type]
           tag == fieldTag(field.number,
                           IF field.mapEntry # Undefined THEN LengthDelimited
                           ELSE typeInfo.wireType)
           tagHex == Literal(tag, TRUE)
       IN  IF field.mapEntry # Undefined THEN genMapEncode(field, tagHex)
           ELSE IF isRepeated(field) THEN genRepeatedEncode(field, solName, typeInfo, tagHex)
           ELSE IF isMessage(field) THEN genMessageEncode(field, solName, tagHex)
           ELSE genScalarEncode(solName, typeInfo, tagHex)

genScalarDecode(solName, typeInfo, tag) ==
  Returned(Frag("scalar", Literal(tag, FALSE), solName, typeInfo.decodeFunc, "",
                NoLit, "", NoLit, "", ""))

genMessageDecode(field, solName, tag) ==
  LET t == resolveSolType(field.type, field.typeName)
  IN  IF t.st = "throw" THEN t
      ELSE Returned(Frag("message", Literal(tag, FALSE), solName, "", codecLibName(t.out),
                         NoLit, "", NoLit, "", ""))

\* the scalar case declares `${resolveSolType(...)} _elem;` (valType here)
genRepeatedDecode(field, solName, typeInfo, tag) ==
  LET t == resolveSolType(field.type, field.typeName)
  IN  IF t.st = "throw" THEN t
      ELSE IF isMessage(field)
      THEN Returned(Frag("repeated", Literal(tag, FALSE), solName, "", codecLibName(t.out),
                         NoLit, "", NoLit, "", ""))
      ELSE Returned(Frag("repeated", Literal(tag, FALSE), solName, typeInfo.decodeFunc, "",
                         NoLit, "", NoLit, "", t.out))

\* the case declares `${keySol} _key;` and `${valSol} _val;`
genMapDecode(field, solName, tag) ==
  LET me == field.mapEntry
      keySol == resolveSolType(me.keyType, Undefined)
      valSol == resolveSolType(me.valueType, me.valueTypeName)
  IN  IF keySol.st = "throw" THEN keySol
      ELSE IF valSol.st = "throw" THEN valSol
      ELSE LET keyInfo == PROTO_TYPE_MAP[me.keyType]
               valInfo == PROTO_TYPE_MAP[me.valueType]
               keyTag == Literal(fieldTag(1, keyInfo.wireType), FALSE)
           IN  IF me.valueType = 11
               THEN Returned(Frag("map", Literal(tag, FALSE), solName, "",
                                  codecLibName(valSol.out), keyTag, keyInfo.decodeFunc,
                                  Literal(fieldTag(2, LengthDelimited), FALSE),
                                  keySol.out, valSol.out))
               ELSE Returned(Frag("map", Literal(tag, FALSE), solName, valInfo.decodeFunc,
                                  "", keyTag, keyInfo.decodeFunc,
                                  Literal(fieldTag(2, valInfo.wireType), FALSE),
                                  keySol.out, valSol.out))

genFieldDecode(field) ==
  IF ~HasEntry(field.type) THEN Returned(TodoFrag(field))
  ELSE LET solName == snakeToCamel(field.name)
           typeInfo == PROTO_TYPE_MAP[field.type]
           tag == fieldTag(field.number,
                           IF field.mapEntry # Undefined THEN LengthDelimited
                           ELSE typeInfo.wireType)
       IN  IF field.mapEntry # Undefined THEN genMapDecode(field, solName, tag)
           ELSE IF isRepeated(field) THEN genRepeatedDecode(field, solName, typeInfo, tag)
           ELSE IF isMessage(field) THEN genMessageDecode(field, solName, tag)
           ELSE genScalarDecode(solName, typeInfo, tag)

-----------------------------------------------------------------------------
(* util/names.ts: output file names *)

Chars_proto == <<".", "p", "r", "o", "t", "o">>
Chars_pb_sol == <<".", "p", "b", ".", "s", "o", "l">>
Chars_ProtobufRuntime_sol ==
  <<"P", "r", "o", "t", "o", "b", "u", "f", "R", "u", "n", "t", "i", "m", "e",
    ".", "s", "o", "l">>

EndsWith(s, t) == Len(s) >= Len(t) /\ SubSeq(s, Len(s) - Len(t) + 1, Len(s)) = t

RECURSIVE SplitOn(_, _)
\* s.split(<any character of seps>): the pieces, empty ones included
SplitOn(s, seps) ==
  IF \A i \in 1 .. Len(s) : s[i] \notin seps THEN <<s>>
  ELSE LET i == CHOOSE k \in 1 .. Len(s) :
                  s[k] \in seps /\ \A j \in 1 .. (k - 1) : s[j] \notin seps
       IN  <<SubSeq(s, 1, i - 1)>> \o SplitOn(SubSeq(s, i + 1, Len(s)), seps)

RECURSIVE Flatten(_)
\* pieces.join("")
Flatten(pieces) ==
  IF pieces = <<>> THEN <<>> ELSE Head(pieces) \o Flatten(Tail(pieces))

\* s.charAt(0).toUpperCase() + s.slice(1)
Capitalize(s) == IF s = <<>> THEN <<>> ELSE <<ToUpperCase(s[1])>> \o Tail(s)

\* An output path is its directory components and the characters of its file name.
Path(dir, base) == [dir |-> dir, base |-> base]

\* a naming that leaves the package out of the path
SolFileFlat(protoFile, packageName) ==
  LET base == IF EndsWith(protoFile, Chars_proto)
              THEN SubSeq(protoFile, 1, Len(protoFile) - Len(Chars_proto))
              ELSE protoFile
      parts == SplitOn(base, {"/"})
      pieces == SplitOn(parts[Len(parts)], {"_", "-", "."})
  IN  Path(<<>>, Flatten([i \in 1 .. Len(pieces) |-> Capitalize(pieces[i])])
                   \o Chars_pb_sol)

protoFileToSolFile(protoFile, packageName) ==
  LET base == IF EndsWith(protoFile, Chars_proto)
              THEN SubSeq(protoFile, 1, Len(protoFile) - Len(Chars_proto))
              ELSE protoFile
      parts == SplitOn(base, {"/"})
      filename == parts[Len(parts)]
      pieces == SplitOn(filename, {"_", "-", "."})
      pascal == Flatten([i \in 1 .. Len(pieces) |-> Capitalize(pieces[i])])
      solBasename == pascal \o Chars_pb_sol
  IN  IF ~Truthy(packageName) THEN Path(<<>>, solBasename)
      ELSE Path(packageName, solBasename)

-----------------------------------------------------------------------------
(* plugin.ts: the descriptor walk *)

\* An optional property of a decoded message: <<>> when absent, <<v>> when set.
None == <<>>
Some(v) == <<v>>

\* x ?? d
OrElse(x, d) == IF x = None THEN d ELSE x[1]

\* a property copied as it is: undefined when absent
OrUndefined(x) == IF x = None THEN Undefined ELSE x[1]

\* FieldDescriptorProto, DescriptorProto and FileDescriptorProto as decoded
RawField(name, number, label, type, type_name) ==
  [name |-> name, number |-> number, label |-> label, type |-> type,
   type_name |-> type_name, oneof_index |-> None]

RawMessage(name, field, nested_type, map_entry) ==
  [name |-> name, field |-> field, nested_type |-> nested_type, map_entry |-> map_entry]

RawFile(name, package, message_type) ==
  [name |-> name, package |-> package, message_type |-> message_type]

MessageDescriptor(name, fullName, fields, nestedMessages, isMapEntry) ==
  [name |-> name, fullName |-> fullName, fields |-> fields,
   nestedMessages |-> nestedMessages, isMapEntry |-> isMapEntry]

\* the object literal of convertDescriptor's field map: no mapEntry is set
convertField(f) ==
  FieldInfo(OrElse(f.name, <<>>), OrElse(f.number, 0), OrElse(f.type, 0),
            OrUndefined(f.type_name), OrElse(f.label, 1),
            OrUndefined(f.oneof_index), Undefined)

\* a conversion that leaves the nested messages out
ConvertFlat(desc, parentFqn) ==
  LET name == OrElse(desc.name, "")
      fullName == IF Truthy(parentFqn) THEN parentFqn \o <<name>> ELSE <<name>>
  IN  MessageDescriptor(name, fullName,
                        [i \in 1 .. Len(desc.field) |-> convertField(desc.field[i])],
                        <<>>, desc.map_entry = Some(TRUE))

RECURSIVE convertDescriptor(_, _)
convertDescriptor(desc, parentFqn) ==
  LET name == OrElse(desc.name, "")
      fullName == IF Truthy(parentFqn) THEN parentFqn \o <<name>> ELSE <<name>>
      isMapEntry == desc.map_entry = Some(TRUE)
      fields == [i \in 1 .. Len(desc.field) |-> convertField(desc.field[i])]
      nestedMessages ==
        [i \in 1 .. Len(desc.nested_type) |->
           convertDescriptor(desc.nested_type[i], fullName)]
  IN  MessageDescriptor(name, fullName, fields, nestedMessages, isMapEntry)

extractMessages(protoFile, packageName) ==
  [i \in 1 .. Len(protoFile.message_type) |->
     convertDescriptor(protoFile.message_type[i], packageName)]

-----------------------------------------------------------------------------
(* generator/message.ts: the message assembler *)

\* the first failure of a sequence of generation results, if any
FirstThrow(rs) ==
  IF \E i \in 1 .. Len(rs) : rs[i].st = "throw"
  THEN <<rs[CHOOSE i \in 1 .. Len(rs) :
              rs[i].st = "throw" /\ \A j \in 1 .. (i - 1) : rs[j].st # "throw"]>>
  ELSE <<>>

Outs(rs) == [i \in 1 .. Len(rs) |-> rs[i].out]

\* the unit of a message from its per-field emissions, or the first throw
unitOf(msg, members, encodes, decodes) ==
  LET failed == FirstThrow(members \o encodes \o decodes)
  IN  IF failed # <<>> THEN failed[1]
      ELSE Returned([name |-> msg.name, members |-> Flatten(Outs(members)),
                     encode |-> Outs(encodes), decode |-> Outs(decodes)])

\* One codec unit: the struct's members and, field by field in declaration
\* order, the encode fragments and the decode cases.
assembleMessage(msg) ==
  unitOf(msg,
         [i \in 1 .. Len(msg.fields) |-> genStructMember(msg.fields[i])],
         [i \in 1 .. Len(msg.fields) |-> genFieldEncode(msg.fields[i])],
         [i \in 1 .. Len(msg.fields) |-> genFieldDecode(msg.fields[i])])

RECURSIVE flattenMessages(_)
\* every message of the trees, parents before their nested messages
flattenMessages(messages) ==
  IF messages = <<>> THEN <<>>
  ELSE <<Head(messages)>> \o flattenMessages(Head(messages).nestedMessages)
         \o flattenMessages(Tail(messages))

\* the source unit of the codec units, or the first throw
sourceOf(units, fileName) ==
  LET failed == FirstThrow(units)
  IN  IF failed # <<>> THEN failed[1]
      ELSE Returned([source |-> fileName, units |-> Outs(units)])

\* the codec units of the messages not marked isMapEntry
unitsOf(all) ==
  LET visible == SelectSeq(all, LAMBDA m : ~m.isMapEntry)
  IN  [i \in 1 .. Len(visible) |-> assembleMessage(visible[i])]

\* one generated source unit: a codec unit for every message not marked isMapEntry
generateSolFile(messages, fileName) ==
  sourceOf(unitsOf(flattenMessages(messages)), fileName)

\* generateRuntime(): the text of ProtobufRuntime.sol
RUNTIME_SOL == "library ProtobufRuntime"

generateRuntime == RUNTIME_SOL

-----------------------------------------------------------------------------
(* plugin.ts: the plugin boundary *)

\* A thrown JavaScript value: an Error with a message (<<>> is the empty string),
\* a value that is no Error (its .message is undefined), or null/undefined.
Error(message) == [kind |-> "Error", message |-> message]
NonError == [kind |-> "value", message |-> <<>>]
Nullish == [kind |-> "nullish", message |-> <<>>]

\* A CodeGeneratorRequest: `decode` is Decoded or the value ReqType.decode throws;
\* parameter is a sequence of <<key, value>> pairs, file_to_generate a sequence of
\* names, proto_file a sequence of RawFile.
Decoded == [kind |-> "ok", message |-> <<>>]

Request(decode, parameter, file_to_generate, proto_file) ==
  [decode |-> decode, parameter |-> parameter,
   file_to_generate |-> file_to_generate, proto_file |-> proto_file]

validLevels == {"log", "trace", "debug", "info", "warn", "error"}

\* the logger's level after setLogLevel(level)
setLogLevel(current, level) == IF level \in validLevels THEN level ELSE current

RECURSIVE parseParams(_)
\* the record of a "key=value,key2=value2" string: a later pair overwrites an
\* earlier one, a pair with no key is dropped
parseParams(param) ==
  IF param = <<>> THEN <<>>
  ELSE LET rest == parseParams(SubSeq(param, 1, Len(param) - 1))
           pair == param[Len(param)]
       IN  IF pair[1] = "" THEN rest
           ELSE SelectSeq(rest, LAMBDA q : q[1] # pair[1]) \o <<pair>>

\* params.log_level, "" when it is not set
LogLevelParam(params) ==
  IF \E i \in 1 .. Len(params) : params[i][1] = "log_level"
  THEN params[CHOOSE i \in 1 .. Len(params) : params[i][1] = "log_level"][2]
  ELSE ""

File(name, content) == [name |-> name, content |-> content]

\* a loop body that does not look at the requested-for-output set
PushUnfiltered(wanted, messages, solFileName, solContent, rest) ==
  IF Len(messages) = 0 THEN rest
  ELSE IF solContent.st = "throw" THEN Thrown(Error(solContent.out))
  ELSE IF rest.st = "throw" THEN rest
  ELSE Returned(<<File(solFileName, solContent.out)>> \o rest.out)

\* one iteration of the loop of processRequest, `rest` being the later iterations
pushFile(wanted, messages, solFileName, solContent, rest) ==
  IF ~wanted THEN rest
  ELSE IF Len(messages) = 0 THEN rest
  ELSE IF solContent.st = "throw" THEN Thrown(Error(solContent.out))
  ELSE IF rest.st = "throw" THEN rest
  ELSE Returned(<<File(solFileName, solContent.out)>> \o rest.out)

RECURSIVE generateFiles(_, _)
\* the loop of processRequest over proto_file: the files pushed, or the throw
generateFiles(protoFiles, filesToGenerate) ==
  IF protoFiles = <<>> THEN Returned(<<>>)
  ELSE LET protoFile == Head(protoFiles)
           fileName == OrElse(protoFile.name, <<>>)
           package == OrElse(protoFile.package, <<"">>)
           messages == extractMessages(protoFile, package)
       IN  pushFile(fileName \in filesToGenerate, messages,
                    protoFileToSolFile(fileName, package),
                    generateSolFile(messages, fileName),
                    generateFiles(Tail(protoFiles), filesToGenerate))

ToSet(seq) == {seq[i] : i \in 1 .. Len(seq)}

RuntimeFile == File(Path(<<>>, Chars_ProtobufRuntime_sol), generateRuntime)

\* a processRequest that pushes no runtime library
ResultNoRuntime(generated) ==
  IF generated.st = "throw" THEN generated
  ELSE Returned([files |-> generated.out, error |-> None])

\* the PluginResult of the files generated, or the value thrown
resultOf(generated) ==
  IF generated.st = "throw" THEN generated
  ELSE Returned([files |-> <<RuntimeFile>> \o generated.out, error |-> None])

\* the PluginResult, or the value thrown
processRequest(stdin) ==
  IF stdin.decode # Decoded THEN Thrown(stdin.decode)
  ELSE resultOf(generateFiles(stdin.proto_file, ToSet(stdin.file_to_generate)))

\* the logger's level after processRequest
levelAfter(current, stdin) ==
  IF stdin.decode # Decoded THEN current
  ELSE LET level == LogLevelParam(parseParams(stdin.parameter))
       IN  IF level # "" THEN setLogLevel(current, level) ELSE current

\* The CodeGeneratorResponse: error is set only when result.error is truthy.
encodeResponse(result) ==
  [supported_features |-> 1,
   file |-> result.files,
   error |-> IF result.error # None /\ result.error[1] # <<>>
             THEN result.error ELSE None]

\* err.message of a caught value: undefined (None) when it has none
MessageOf(err) == IF err.kind = "Error" THEN Some(err.message) ELSE None

\* the response to a result r of processRequest
respond(r) ==
  IF r.st = "ok" THEN Returned(encodeResponse(r.out))
  ELSE IF r.out.kind = "nullish" THEN TypeError("message")
  ELSE Returned(encodeResponse([files |-> <<>>, error |-> MessageOf(r.out)]))

\* the response, or the TypeError of reading .message of null in the catch block
runPlugin(stdin) == respond(processRequest(stdin))

\* an invocation whose response is only given while the logger is at "info"
InvokeLevelled(level, stdin) ==
  [response |-> IF level = "info" THEN runPlugin(stdin) ELSE TypeError("level"),
   level |-> levelAfter(level, stdin)]

\* One invocation in a process whose logger is at `level`: the response written
\* to stdout and the logger's level afterwards.  The log calls write to stderr.
invoke(level, stdin) ==
  [response |-> runPlugin(stdin), level |-> levelAfter(level, stdin)]

-----------------------------------------------------------------------------
(* One-step operations: inputs drawn from bounded sets *)

CallInit == op = "none" /\ arg = <<>> /\ res = <<>> /\ logLevel = "info"

CodecIdle ==
  /\ pc = "idle" /\ mtype = "" /\ data = <<>>
  /\ src = [kind |-> "none", msg |-> <<>>, items |-> <<>>]
  /\ pos = 0 /\ dmsg = <<>> /\ iters = 0

\* the largest field number of protobuf, 2^29 - 1
MaxFieldNumber == Pow2(29) - 1

TagNumbers ==
  (1 .. MaxSmallNumber) \cup
  {Pow2(k) - 1 : k \in {7, 14, 21, 28, 29}} \cup {Pow2(k) : k \in {7, 14, 21, 28}}

\* fieldTag applied to a field number and a wire type
TagStep ==
  /\ op = "none"
  /\ op' = "fieldTag"
  /\ \E n \in TagNumbers, w \in WireTypes :
       /\ arg' = <<n, w>>
       /\ res' = fieldTag(n, w)
  /\ UNCHANGED <<logLevel, codecVars>>

ScalarCodes == DOMAIN PROTO_TYPE_MAP \ {11}

\* boundary values of each target type
ValuesOf(ty) ==
  CASE ty = "uint64" ->
         {FromNat(0), FromNat(1), FromNat(127), FromNat(128), FromNat(300),
          0 .. 31, {63}, 0 .. 63}
    [] ty = "uint32" ->
         {FromNat(0), FromNat(1), FromNat(127), FromNat(128), FromNat(300), {31}, 0 .. 31}
    [] ty = "int64" ->
         {FromNat(0), FromNat(1), FromNat(300), AllOnes, FromInt(-300),
          0 .. 62, 63 .. (WordBits - 1)}
    [] ty = "int32" ->
         {FromNat(0), FromNat(1), FromNat(300), AllOnes, FromInt(-300),
          0 .. 30, 31 .. (WordBits - 1)}
    [] ty = "bool" -> {TRUE, FALSE}
    [] ty \in {"string", "bytes"} ->
         {<<>>, <<97>>, <<97, 98>>, [i \in 1 .. 130 |-> 120]}

Filler(n) == [i \in 1 .. n |-> 255]

\* The emitted scalar encode of one table entry applied to a value of its target
\* type, then the entry's scalar decode applied to the bytes written, the cursor
\* starting after n filler bytes.
ScalarRoundTrip(code, v, n) ==
  LET info == PROTO_TYPE_MAP[code]
      enc == CallEncode(info.encodeFunc, info.solType, v)
      dec == CallDecode(info.decodeFunc, info.solType, Filler(n) \o enc.bytes, n)
  IN  IF enc.st # "ok" THEN [st |-> enc.st, val |-> {}, pos |-> n, written |-> 0]
      ELSE [st |-> dec.st, val |-> dec.val, pos |-> dec.pos, written |-> Len(enc.bytes)]

ScalarStep ==
  /\ op = "none"
  /\ op' = "scalarRoundTrip"
  /\ \E code \in ScalarCodes, n \in 0 .. MaxPrefix :
       \E v \in ValuesOf(PROTO_TYPE_MAP[code].solType) :
         /\ arg' = [code |-> code, value |-> v, at |-> n]
         /\ res' = ScalarRoundTrip(code, v, n)
  /\ UNCHANGED <<logLevel, codecVars>>

\* field names, type names and message names of the inputs
N_id == <<"i", "d">>
N_user_name == <<"u", "s", "e", "r", "_", "n", "a", "m", "e">>
N_tags == <<"t", "a", "g", "s">>
N_child == <<"c", "h", "i", "l", "d">>
N_attrs == <<"a", "t", "t", "r", "s">>
N_key == <<"k", "e", "y">>
N_value == <<"v", "a", "l", "u", "e">>

T_Inner == <<"", "pkg", "Outer", "Inner">>

GenTypes == {-1} \cup (0 .. 19)

\* FieldInfo values: every type code, both labels, with and without a type name;
\* a map field is a repeated message field carrying mapEntry
FieldInfos ==
  {FieldInfo(n, k, t, tn, l, Undefined, Undefined) :
     n \in {N_id, N_user_name}, k \in {1, 16}, t \in GenTypes,
     tn \in {Undefined, T_Inner}, l \in {1, 3}}
  \cup
  {FieldInfo(n, k, 11, T_Inner, 3, Undefined, me) :
     n \in {N_attrs}, k \in {1, 16},
     me \in {MapEntry(5, 9, Undefined), MapEntry(9, 11, T_Inner),
             MapEntry(10, 9, Undefined), MapEntry(4, 10, Undefined)}}

\* the three per-field emissions for one field
GenStep ==
  /\ op = "none"
  /\ op' = "genField"
  /\ \E field \in FieldInfos :
       /\ arg' = field
       /\ res' = [member |-> genStructMember(field),
                  encode |-> genFieldEncode(field),
                  decode |-> genFieldDecode(field)]
  /\ UNCHANGED <<logLevel, codecVars>>

\* the type name of a message nested in Outer, under a package or none
TypeNameIn(package, name) ==
  IF package = None THEN <<"", "Outer", name>> ELSE <<"">> \o package[1] \o <<"Outer", name>>

R_AttrsEntry ==
  RawMessage(Some("AttrsEntry"),
             <<RawField(Some(N_key), Some(1), Some(1), Some(5), None),
               RawField(Some(N_value), Some(2), Some(1), Some(9), None)>>,
             <<>>, Some(TRUE))

R_Deep ==
  RawMessage(Some("Deep"), <<RawField(Some(N_id), Some(1), Some(1), Some(4), None)>>,
             <<>>, None)

R_Inner ==
  RawMessage(Some("Inner"),
             <<RawField(Some(N_id), Some(1), Some(1), Some(4), None),
               RawField(Some(N_user_name), Some(2), Some(1), Some(9), None)>>,
             <<R_Deep>>, Some(FALSE))

\* the fields a message Outer may declare
OuterFields(package) ==
  <<RawField(Some(N_id), Some(1), Some(1), Some(4), None),
    RawField(Some(N_tags), Some(2), Some(3), Some(9), None),
    RawField(Some(N_child), Some(3), Some(1), Some(11), Some(TypeNameIn(package, "Inner"))),
    RawField(Some(N_attrs), Some(4), Some(3), Some(11),
             Some(TypeNameIn(package, "AttrsEntry"))),
    RawField(Some(N_user_name), None, None, Some(10), None),
    RawField(Some(N_value), None, Some(1), Some(4), None)>>

\* the subsequence of s at the indexes of the set keep
Pick(s, keep) == SelectSeq([i \in 1 .. Len(s) |-> <<i, s[i]>>], LAMBDA e : e[1] \in keep)

PickedFields(package, keep) ==
  LET picked == Pick(OuterFields(package), keep)
  IN  [i \in 1 .. Len(picked) |-> picked[i][2]]

R_Outer(package, keep) ==
  RawMessage(Some("Outer"), PickedFields(package, keep), <<R_Inner, R_AttrsEntry>>, None)

F_a == <<"a", ".", "p", "r", "o", "t", "o">>
F_my_svc == <<"x", "/", "m", "y", "_", "s", "v", "c", ".", "p", "r", "o", "t", "o">>
F_empty == <<"e", ".", "p", "r", "o", "t", "o">>

Packages == {None, Some(<<"pkg">>), Some(<<"pkg", "v1">>)}

\* schema files: Outer with any choice of its fields, under each package
RawFiles ==
  {RawFile(Some(F_a), package, <<R_Outer(package, keep)>>) :
     package \in Packages, keep \in SUBSET (1 .. 6)}

\* extractMessages applied to one schema file
ConvertStep ==
  /\ op = "none"
  /\ op' = "extractMessages"
  /\ \E protoFile \in RawFiles :
       /\ arg' = protoFile
       /\ res' = extractMessages(protoFile, OrElse(protoFile.package, <<"">>))
  /\ UNCHANGED <<logLevel, codecVars>>

\* the schema files of a request: a good one, one with a map, one with a group
\* field (generation throws) and one with no message
PluginFiles ==
  <<RawFile(Some(F_a), Some(<<"pkg">>), <<R_Outer(Some(<<"pkg">>), {1, 2, 3})>>),
    RawFile(Some(F_my_svc), None, <<R_Outer(None, {1, 4})>>),
    RawFile(Some(<<"g">> \o Chars_proto), None, <<R_Outer(None, {1, 5})>>),
    RawFile(Some(F_empty), None, <<>>)>>

FileNames == {PluginFiles[i].name[1] : i \in 1 .. Len(PluginFiles)}

SeqsUpTo(S, n) == UNION {[1 .. k -> S] : k \in 0 .. n}

\* the sequence of a set of names, in the order of PluginFiles
Listed(names) ==
  LET kept == SelectSeq(PluginFiles, LAMBDA f : f.name[1] \in names)
  IN  [i \in 1 .. Len(kept) |-> kept[i].name[1]]

Requests ==
  {Request(Decoded, param, Listed(names), files) :
     param \in {<<>>, <<<<"log_level", "debug">>>>, <<<<"log_level", "loud">>>>},
     names \in SUBSET FileNames,
     files \in SeqsUpTo(ToSet(PluginFiles), MaxFiles)}
  \cup
  {Request(thrown, <<>>, <<>>, <<>>) :
     thrown \in {Error(<<"index out of range: 3 + 10 > 5">>), Error(<<>>),
                 NonError, Nullish}}

\* one invocation of the plugin
PluginStep ==
  /\ op = "none"
  /\ op' = "runPlugin"
  /\ \E stdin \in Requests :
       /\ arg' = stdin
       /\ res' = runPlugin(stdin)
       /\ logLevel' = levelAfter(logLevel, stdin)
  /\ UNCHANGED codecVars

\* the longest schema file name drawn, its ".proto" extension not counted
MaxNameLen == 3

NameChars == {"a", "B", "_", "-", ".", "/"}

\* schema file names, with the extension and without
NameInputs ==
  {stem \o ext : stem \in SeqsUpTo(NameChars, MaxNameLen), ext \in {<<>>, Chars_proto}}

\* packages as protoFileToSolFile gets them: undefined, "", "pkg", "pkg.v1"
PackageInputs == {Undefined, <<"">>, <<"pkg">>, <<"pkg", "v1">>}

\* protoFileToSolFile applied to a schema file name and a package
NameStep ==
  /\ op = "none"
  /\ op' = "protoFileToSolFile"
  /\ \E protoFile \in NameInputs, packageName \in PackageInputs :
       /\ arg' = <<protoFile, packageName>>
       /\ res' = protoFileToSolFile(protoFile, packageName)
  /\ UNCHANGED <<logLevel, codecVars>>

\* type names as a field carries them: none, "", and names of messages
TypeNames ==
  {Undefined, <<"">>, T_Inner, <<"", "pkg", "Other">>, <<"Inner">>, <<"", "Deep">>}

\* resolveSolType applied to a field-type code and a type name
ResolveStep ==
  /\ op = "none"
  /\ op' = "resolveSolType"
  /\ \E fieldType \in GenTypes, typeName \in TypeNames :
       /\ arg' = <<fieldType, typeName>>
       /\ res' = resolveSolType(fieldType, typeName)
  /\ UNCHANGED <<logLevel, codecVars>>

Init == CallInit /\ CodecIdle

Next == TagStep \/ ScalarStep \/ GenStep \/ ConvertStep \/ PluginStep \/ NameStep \/ ResolveStep

Spec == Init /\ [][Next]_vars

-----------------------------------------------------------------------------
(* Invocations one after another in one process: the logger keeps its level *)

\* the most schema files in a request of a sequence of invocations
MaxRunFiles == 2

\* requests of a sequence: each sets a log level, a wrong one or none, lists
\* distinct schema files (two good ones, one whose generation throws) in any
\* order, and asks for all of them or for one; or its decoding throws
RunRequests ==
  {Request(Decoded, param, names, files) :
     param \in {<<>>, <<<<"log_level", "debug">>>>, <<<<"log_level", "warn">>>>,
                <<<<"log_level", "loud">>>>},
     names \in {<<F_a, F_my_svc, <<"g">> \o Chars_proto>>, <<F_a>>},
     files \in {fs \in SeqsUpTo({PluginFiles[1], PluginFiles[2], PluginFiles[3]},
                                 MaxRunFiles) :
                 \A i, j \in 1 .. Len(fs) : fs[i] = fs[j] => i = j}}
  \cup {Request(Error(<<"index out of range: 3 + 10 > 5">>), <<>>, <<>>, <<>>)}

\* the state after an invocation gave r
Ran(stdin, r) ==
  /\ arg' = stdin
  /\ res' = r.response
  /\ logLevel' = r.level

\* an invocation, the first of the process or a later one
RunStep ==
  /\ op \in {"none", "runPlugin"}
  /\ op' = "runPlugin"
  /\ \E stdin \in RunRequests : Ran(stdin, invoke(logLevel, stdin))
  /\ UNCHANGED codecVars

NextRuns == RunStep

SpecRuns == Init /\ [][NextRuns]_vars

-----------------------------------------------------------------------------
(* The emitted codecs, run on the runtime primitives *)

N_delta == <<"d", "e", "l", "t", "a">>
N_nums == <<"n", "u", "m", "s">>
N_kids == <<"k", "i", "d", "s">>
N_objs == <<"o", "b", "j", "s">>

Plain(name, number, type) ==
  FieldInfo(name, number, type, Undefined, 1, Undefined, Undefined)

\* The message types whose codecs are run.  A map field carries the mapEntry of
\* its entry message (key and value types), as descriptor construction is
\* specified to leave it.
Schemas ==
  [Inner |-> <<Plain(N_id, 1, 4), Plain(N_user_name, 2, 9), Plain(N_delta, 3, 18)>>,
   Outer |-> <<Plain(N_id, 1, 4),
               FieldInfo(N_child, 2, 11, T_Inner, 1, Undefined, Undefined)>>,
   Rep |-> <<FieldInfo(N_tags, 1, 9, Undefined, 3, Undefined, Undefined),
             FieldInfo(N_nums, 2, 5, Undefined, 3, Undefined, Undefined),
             FieldInfo(N_kids, 3, 11, T_Inner, 3, Undefined, Undefined),
             Plain(N_id, 4, 4)>>,
   Maps |-> <<FieldInfo(N_attrs, 4, 11, <<"", "pkg", "Maps", "AttrsEntry">>, 3,
                        Undefined, MapEntry(5, 9, Undefined)),
              FieldInfo(N_objs, 5, 11, <<"", "pkg", "Maps", "ObjsEntry">>, 3,
                        Undefined, MapEntry(9, 11, T_Inner))>>]

\* the codec unit of each message type
Units ==
  [n \in DOMAIN Schemas |->
     assembleMessage(MessageDescriptor(n, <<"pkg", n>>, Schemas[n], <<>>, FALSE)).out]

\* the declared type of a struct member
TypeOf(unit, name) ==
  unit.members[CHOOSE i \in 1 .. Len(unit.members) : unit.members[i].name = name].type

RECURSIVE ZeroOfType(_), ZeroMember(_), ZeroStruct(_)
\* the value of a freshly declared variable of a type: an integer is a word, a
\* string its bytes, a struct a function from its member names
ZeroOfType(ty) ==
  IF ty \in IntTypes THEN {}
  ELSE IF ty = "bool" THEN FALSE
  ELSE IF ty \in {"string", "bytes"} THEN <<>>
  ELSE ZeroStruct(Units[ty].members)

ZeroMember(m) == IF m.array THEN <<>> ELSE ZeroOfType(m.type)

ZeroStruct(members) ==
  [name \in {members[i].name : i \in 1 .. Len(members)} |->
     ZeroMember(members[CHOOSE i \in 1 .. Len(members) : members[i].name = name])]

\* what emitted encode statements give: the bytes, or why there are none
Bytes(b) == [st |-> "ok", bytes |-> b]
NoBytes(st) == [st |-> st, bytes |-> <<>>]

\* abi.encodePacked(a, b) of two such results
Cat(a, b) ==
  IF a.st # "ok" THEN a ELSE IF b.st # "ok" THEN b ELSE Bytes(a.bytes \o b.bytes)

\* ProtobufRuntime._encode_key(<literal>)
Key(lit) ==
  IF LiteralOk(lit) /\ ~lit.neg /\ IsUint(64, lit.mag)
  THEN Bytes(_encode_key(lit.mag)) ELSE NoBytes("rejected")

\* _encode_varint(uint64(x.length)) followed by x
Delimited(r) ==
  IF r.st # "ok" THEN r ELSE Bytes(_encode_varint(FromNat(Len(r.bytes))) \o r.bytes)

RECURSIVE encode(_, _), EncodeElems(_, _, _), EncodeEntries(_, _, _, _, _, _)
RECURSIVE EncodeFields(_, _, _), EncodeField(_, _, _), ElemBytes(_, _, _)
RECURSIVE EntryBytes(_, _, _, _, _)

\* one element or map value: through the nested codec, or through the primitive
ElemBytes(frag, ty, v) ==
  IF frag.func = "" THEN Delimited(encode(frag.codec[1], v))
  ELSE CallEncode(frag.func, ty, v)

\* the loop of genRepeatedEncode's statements
EncodeElems(frag, ty, elems) ==
  IF elems = <<>> THEN Bytes(<<>>)
  ELSE Cat(Cat(Key(frag.tag), ElemBytes(frag, ty, Head(elems))),
           EncodeElems(frag, ty, Tail(elems)))

\* `_entry` of genMapEncode's loop body
EntryBytes(frag, keyTy, valTy, k, v) ==
  Cat(Cat(Key(frag.keyTag), CallEncode(frag.keyFunc, keyTy, k)),
      Cat(Key(frag.valTag), ElemBytes(frag, valTy, v)))

\* the loop of genMapEncode's statements, over the keys' length; indexing the
\* values past their end panics
EncodeEntries(frag, keyTy, valTy, keys, values, i) ==
  IF i > Len(keys) THEN Bytes(<<>>)
  ELSE IF i > Len(values) THEN NoBytes("revert")
  ELSE Cat(Cat(Key(frag.tag),
               Delimited(EntryBytes(frag, keyTy, valTy, keys[i], values[i]))),
           EncodeEntries(frag, keyTy, valTy, keys, values, i + 1))

\* the statements of one encode fragment, run on a struct value
EncodeField(frag, unit, msg) ==
  CASE frag.kind = "todo" -> Bytes(<<>>)
    [] frag.kind = "scalar" ->
         Cat(Key(frag.tag),
             CallEncode(frag.func, TypeOf(unit, frag.member), msg[frag.member]))
    [] frag.kind = "message" ->
         Cat(Key(frag.tag), Delimited(encode(frag.codec[1], msg[frag.member])))
    [] frag.kind = "repeated" ->
         EncodeElems(frag, TypeOf(unit, frag.member), msg[frag.member])
    [] frag.kind = "map" ->
         EncodeEntries(frag, TypeOf(unit, frag.member \o KeysSuffix),
                       TypeOf(unit, frag.member \o ValuesSuffix),
                       msg[frag.member \o KeysSuffix],
                       msg[frag.member \o ValuesSuffix], 1)

\* the encode function: the fragments folded over the buffer in declaration order
EncodeFields(unit, msg, i) ==
  IF i > Len(unit.encode) THEN Bytes(<<>>)
  ELSE Cat(EncodeField(unit.encode[i], unit, msg), EncodeFields(unit, msg, i + 1))

\* <Message>Codec.encode(msg)
encode(name, msg) == EncodeFields(Units[name], msg, 1)

RECURSIVE decode(_, _), DecodeLoop(_, _, _, _), DecodeEntryLoop(_, _, _, _, _, _)
RECURSIVE NestedFrom(_, _, _), DecodeElem(_, _, _, _), EntryCase(_, _, _, _, _, _)
RECURSIVE KeyRead(_, _, _, _, _), ValRead(_, _, _, _, _), MapEntryFrom(_, _, _, _)
RECURSIVE DecodeCase(_, _, _, _, _), Dispatch(_, _, _, _), DecodeItem(_, _, _, _)
RECURSIVE LoopFrom(_, _, _)

\* `case <literal>:` is taken for the tag read
Matches(lit, tag) == ~lit.neg /\ lit.mag = tag

\* the value and cursor after a nested decode that ends at cursor p
SubResult(d, p) == IF d.st # "ok" THEN d ELSE Ok(d.val, p)

\* _slice(data, pos, pos + _len), <codec>.decode(_sub), pos += _len, after the
\* length was read with result r
NestedFrom(name, buf, r) ==
  IF r.st # "ok" THEN r
  ELSE IF ~SliceOk(buf, r.pos, r.pos + ToNat(ToUint(64, r.val))) THEN Revert
  ELSE SubResult(decode(name, _slice(buf, r.pos, r.pos + ToNat(ToUint(64, r.val)))),
                 r.pos + ToNat(ToUint(64, r.val)))

\* one element or map value read at cursor p into a variable of type ty
DecodeElem(frag, ty, buf, p) ==
  IF frag.func = "" THEN NestedFrom(frag.codec[1], buf, _decode_varint(buf, p))
  ELSE CallDecode(frag.func, ty, buf, p)

\* the loop continued with the key, or with the value, just read (result r)
KeyRead(frag, buf, end, val, r) ==
  IF r.st # "ok" THEN r ELSE DecodeEntryLoop(frag, buf, r.pos, end, r.val, val)

ValRead(frag, buf, end, key, r) ==
  IF r.st # "ok" THEN r ELSE DecodeEntryLoop(frag, buf, r.pos, end, key, r.val)

\* a loop body that gives up the rest of the entry at a tag it does not know
EntryCaseLenient(frag, buf, end, key, val, t) ==
  IF t.st # "ok" THEN t
  ELSE IF Matches(frag.keyTag, ToUint(64, t.val))
  THEN KeyRead(frag, buf, end, val, CallDecode(frag.keyFunc, frag.keyType, buf, t.pos))
  ELSE IF Matches(frag.valTag, ToUint(64, t.val))
  THEN ValRead(frag, buf, end, key, DecodeElem(frag, frag.valType, buf, t.pos))
  ELSE Ok(<<key, val>>, end)

\* the if / else if / else of genMapDecode's loop body, t the entry tag read
EntryCase(frag, buf, end, key, val, t) ==
  IF t.st # "ok" THEN t
  ELSE IF Matches(frag.keyTag, ToUint(64, t.val))
  THEN KeyRead(frag, buf, end, val, CallDecode(frag.keyFunc, frag.keyType, buf, t.pos))
  ELSE IF Matches(frag.valTag, ToUint(64, t.val))
  THEN ValRead(frag, buf, end, key, DecodeElem(frag, frag.valType, buf, t.pos))
  ELSE Revert

\* while (pos < _entryEnd) of genMapDecode: the pair <<_key, _val>> at its end
DecodeEntryLoop(frag, buf, p, end, key, val) ==
  IF p >= end THEN Ok(<<key, val>>, p)
  ELSE EntryCase(frag, buf, end, key, val, _decode_key(buf, p))

\* msg.<member> = value read
Assign(msg, member, r) ==
  IF r.st # "ok" THEN r ELSE Ok([msg EXCEPT ![member] = r.val], r.pos)

\* msg.<member>.push(value read)
Push(msg, member, r) ==
  IF r.st # "ok" THEN r ELSE Ok([msg EXCEPT ![member] = Append(@, r.val)], r.pos)

\* an end of the map case that pushes the key only
PushKeyOnly(frag, msg, e) ==
  IF e.st # "ok" THEN e
  ELSE Ok([msg EXCEPT ![frag.member \o KeysSuffix] = Append(@, e.val[1])], e.pos)

\* msg.<member>_keys.push(_key); msg.<member>_values.push(_val)
PushEntry(frag, msg, e) ==
  IF e.st # "ok" THEN e
  ELSE Ok([msg EXCEPT ![frag.member \o KeysSuffix] = Append(@, e.val[1]),
                      ![frag.member \o ValuesSuffix] = Append(@, e.val[2])], e.pos)

\* the map case after the entry length was read with result r
MapEntryFrom(frag, msg, buf, r) ==
  IF r.st # "ok" THEN r
  ELSE PushEntry(frag, msg,
                 DecodeEntryLoop(frag, buf, r.pos, r.pos + ToNat(ToUint(64, r.val)),
                                 ZeroOfType(frag.keyType), ZeroOfType(frag.valType)))

\* the statements of one decode case, the cursor p just after the tag
DecodeCase(frag, unit, msg, buf, p) ==
  CASE frag.kind = "scalar" ->
         Assign(msg, frag.member,
                CallDecode(frag.func, TypeOf(unit, frag.member), buf, p))
    [] frag.kind = "message" ->
         Assign(msg, frag.member,
                NestedFrom(frag.codec[1], buf, _decode_varint(buf, p)))
    [] frag.kind = "repeated" ->
         Push(msg, frag.member, DecodeElem(frag, frag.valType, buf, p))
    [] frag.kind = "map" ->
         MapEntryFrom(frag, msg, buf, _decode_varint(buf, p))

\* the cases of the table that a tag selects
CasesFor(unit, tag) ==
  SelectSeq(unit.decode, LAMBDA f : f.kind # "todo" /\ Matches(f.tag, tag))

\* the struct and cursor after an unrecognized field was skipped with result s
Skipped(msg, s) == IF s.st # "ok" THEN s ELSE Ok(msg, s.pos)

\* the dispatch on the tag read with result t: its case, or the skip of the field
\* by the wire category in the tag's low three bits
Dispatch(unit, msg, buf, t) ==
  IF t.st # "ok" THEN t
  ELSE IF CasesFor(unit, ToUint(64, t.val)) # <<>>
  THEN DecodeCase(CasesFor(unit, ToUint(64, t.val))[1], unit, msg, buf, t.pos)
  ELSE Skipped(msg, _skip_field(buf, t.pos, ToNat(And(t.val, FromNat(7)))))

\* one iteration of the decode loop at cursor p
DecodeItem(unit, msg, buf, p) == Dispatch(unit, msg, buf, _decode_key(buf, p))

\* the loop continued after an iteration with result r
LoopFrom(unit, buf, r) ==
  IF r.st # "ok" THEN r ELSE DecodeLoop(unit, r.val, buf, r.pos)

\* while (pos < data.length)
DecodeLoop(unit, msg, buf, p) ==
  IF p >= Len(buf) THEN Ok(msg, p)
  ELSE LoopFrom(unit, buf, DecodeItem(unit, msg, buf, p))

\* <Message>Codec.decode(data)
decode(name, buf) == DecodeLoop(Units[name], ZeroOfType(name), buf, 0)

-----------------------------------------------------------------------------
(* The decode machine: a message is encoded, or a buffer is taken off the wire,
   and the decode loop runs over it one field an iteration *)

M_userName == snakeToCamel(N_user_name)
M_attrs_keys == N_attrs \o KeysSuffix
M_attrs_values == N_attrs \o ValuesSuffix
M_objs_keys == N_objs \o KeysSuffix
M_objs_values == N_objs \o ValuesSuffix

InnerValues ==
  {(N_id :> i) @@ (M_userName :> s) @@ (N_delta :> d) :
     i \in {{}, FromNat(300)}, s \in {<<>>, <<97, 98>>}, d \in {{}, FromInt(-1)}}

\* the Inner with the given id and nothing else set
InnerOf(n) == (N_id :> FromNat(n)) @@ (M_userName :> <<>>) @@ (N_delta :> {})

OuterValues == {(N_id :> FromNat(1)) @@ (N_child :> c) : c \in InnerValues}

RepValues ==
  {(N_tags :> t) @@ (N_nums :> n) @@ (N_kids :> k) @@ (N_id :> {}) :
     t \in SeqsUpTo({<<>>, <<97>>}, MaxElems),
     n \in SeqsUpTo({FromNat(1), FromInt(-1)}, MaxElems),
     k \in SeqsUpTo({InnerOf(0), InnerOf(300)}, MaxElems)}

\* map<int32, string> attrs and map<string, Inner> objs as parallel sequences, of
\* equal lengths or not
MapsValues ==
  {(M_attrs_keys :> ks) @@ (M_attrs_values :> vs) @@
   (M_objs_keys :> oks) @@ (M_objs_values :> ovs) :
     ks \in SeqsUpTo({FromNat(1), FromNat(2), FromInt(-1)}, MaxElems),
     vs \in SeqsUpTo({<<97>>, <<98>>}, MaxElems),
     oks \in SeqsUpTo({<<107>>}, 1), ovs \in SeqsUpTo({InnerOf(300)}, 1)}

ValuesFor ==
  [Inner |-> InnerValues, Outer |-> OuterValues, Rep |-> RepValues, Maps |-> MapsValues]

\* One field on the wire: the member it is for (none when the message has no such
\* field), its wire category, its value (a number or a string) and its bytes.
Item(member, wire, num, str, bytes) ==
  [member |-> member, wire |-> wire, num |-> num, str |-> str, bytes |-> bytes]

\* fields of a Rep on the wire; the int32 -1 is the ten-byte varint of protobuf
RepItems ==
  {Item(N_tags, 2, 0, <<97>>, <<10, 1, 97>>),
   Item(N_tags, 2, 0, <<>>, <<10, 0>>),
   Item(N_nums, 0, 5, <<>>, <<16, 5>>),
   Item(N_nums, 0, 300, <<>>, <<16, 172, 2>>),
   Item(N_nums, 0, -1, <<>>, <<16, 255, 255, 255, 255, 255, 255, 255, 255, 255, 1>>),
   Item(N_kids, 2, 1, <<>>, <<26, 2, 8, 1>>),
   Item(N_id, 0, 7, <<>>, <<32, 7>>)}

\* Fields on the wire for an Inner: its id and user_name, and fields it does not
\* declare: field 9 in every wire category 0 .. 7, field 2^29 - 1, and field 1 in
\* a category other than the declared one.
InnerItems ==
  {Item(N_id, 0, 5, <<>>, <<8, 5>>),
   Item(N_user_name, 2, 0, <<97>>, <<18, 1, 97>>),
   Item(<<>>, 0, 0, <<>>, <<72, 172, 2>>),
   Item(<<>>, 1, 0, <<>>, <<73, 1, 2, 3, 4, 5, 6, 7, 8>>),
   Item(<<>>, 2, 0, <<>>, <<74, 2, 8, 5>>),
   Item(<<>>, 3, 0, <<>>, <<75>>),
   Item(<<>>, 4, 0, <<>>, <<76>>),
   Item(<<>>, 5, 0, <<>>, <<77, 1, 2, 3, 4>>),
   Item(<<>>, 6, 0, <<>>, <<78>>),
   Item(<<>>, 7, 0, <<>>, <<79>>),
   Item(<<>>, 0, 0, <<>>, <<248, 255, 255, 255, 15, 1>>),
   Item(<<>>, 2, 0, <<>>, <<10, 1, 97>>)}

\* the most map entries in a buffer for Maps
MaxEntries == 2

\* Entries on the wire that genMapDecode's loop accepts.  For attrs (field 4,
\* map<int32, string>) num is the key and str the value; for objs (field 5,
\* map<string, Inner>) str is the key and num the id of the value.  A slot whose
\* field the entry does not hold is the zero of its type.
MapsEntryItems ==
  {Item(N_attrs, 2, 1, <<97>>, <<34, 5, 8, 1, 18, 1, 97>>),
   Item(N_attrs, 2, 2, <<>>, <<34, 2, 8, 2>>),
   Item(N_attrs, 2, 0, <<98>>, <<34, 3, 18, 1, 98>>),
   Item(N_attrs, 2, 0, <<>>, <<34, 0>>),
   Item(N_attrs, 2, 1, <<97>>, <<34, 5, 18, 1, 97, 8, 1>>),
   Item(N_objs, 2, 0, <<107>>, <<42, 3, 10, 1, 107>>),
   Item(N_objs, 2, 1, <<107>>, <<42, 7, 10, 1, 107, 18, 2, 8, 1>>)}

\* Entries holding a tag other than the key's and the value's: field 3; field 1
\* and field 2 in a wire category other than the declared one
MapsStrayItems ==
  {Item(N_attrs, 2, 1, <<>>, <<34, 4, 8, 1, 24, 7>>),
   Item(N_attrs, 2, 0, <<>>, <<34, 3, 10, 1, 97>>),
   Item(N_attrs, 2, 0, <<>>, <<34, 2, 16, 1>>),
   Item(N_objs, 2, 0, <<>>, <<42, 2, 8, 1>>)}

\* the buffers taken off the wire, each for the message type that decodes it
WireInputs ==
  {<<"Rep", items>> : items \in SeqsUpTo(RepItems, MaxItems)} \cup
  {<<"Inner", items>> : items \in SeqsUpTo(InnerItems, MaxUnknown)} \cup
  {<<"Maps", items>> : items \in SeqsUpTo(MapsEntryItems \cup MapsStrayItems, MaxEntries)}

RECURSIVE BytesOf(_)
\* the buffer of a sequence of fields
BytesOf(items) ==
  IF items = <<>> THEN <<>> ELSE Head(items).bytes \o BytesOf(Tail(items))

Value(msg) == [kind |-> "value", msg |-> msg, items |-> <<>>]
Wire(items) == [kind |-> "wire", msg |-> <<>>, items |-> items]

\* the decode loop entered on the bytes e of message type name
Enter(name, source, e) ==
  /\ pc' = IF e.st = "ok" THEN "decoding" ELSE e.st
  /\ mtype' = name
  /\ src' = source
  /\ data' = e.bytes
  /\ pos' = 0
  /\ dmsg' = ZeroOfType(name)
  /\ iters' = 0
  /\ UNCHANGED callVars

\* a struct value is encoded by its codec; the bytes go to the decoder
EncodeStep ==
  /\ pc = "idle"
  /\ \E name \in DOMAIN Schemas :
       \E msg \in ValuesFor[name] : Enter(name, Value(msg), encode(name, msg))

\* a buffer arrives off the wire
WireStep ==
  /\ pc = "idle"
  /\ \E input \in WireInputs :
       Enter(input[1], Wire(input[2]), Bytes(BytesOf(input[2])))

\* the state after one iteration of the decode loop gave r
Iterated(r) ==
  /\ pc' = IF r.st = "ok" THEN pc ELSE r.st
  /\ dmsg' = IF r.st = "ok" THEN r.val ELSE dmsg
  /\ pos' = IF r.st = "ok" THEN r.pos ELSE pos
  /\ iters' = IF r.st = "ok" THEN iters + 1 ELSE iters
  /\ UNCHANGED <<mtype, src, data, callVars>>

\* one iteration of while (pos < data.length)
DecodeStep ==
  /\ pc = "decoding"
  /\ pos < Len(data)
  /\ Iterated(DecodeItem(Units[mtype], dmsg, data, pos))

\* the loop ends: decode returns the struct
ReturnStep ==
  /\ pc = "decoding"
  /\ pos >= Len(data)
  /\ pc' = "done"
  /\ UNCHANGED <<mtype, src, data, pos, dmsg, iters, callVars>>

NextCodec == EncodeStep \/ WireStep \/ DecodeStep \/ ReturnStep

SpecCodec == Init /\ [][NextCodec]_vars

-----------------------------------------------------------------------------
(* Claims *)

\* C3 (as claimed): for every field number in 1 .. 2^29-1 and every wire type in
\* {0,1,2,5}, fieldTag gives a non-negative tag with tag >> 3 = number and
\* tag & 7 = wireType, and no other (number, wireType) pair gives the same tag.
C3_TagRoundTrips ==
  (op = "fieldTag" /\ arg[1] \in 1 .. MaxFieldNumber) =>
    /\ res >= 0
    /\ JsSar(res, 3) = arg[1]
    /\ JsAnd(res, 7) = arg[2]
    /\ \A n \in TagNumbers, w \in WireTypes : fieldTag(n, w) = res => <<n, w>> = arg

\* C4 (as claimed): for every supported scalar type code and every value of its
\* target type, the entry's decode primitive applied to the bytes written by the
\* entry's encode primitive returns the original value, the cursor advanced by
\* exactly the number of bytes written.
C4_ScalarRoundTrip ==
  op = "scalarRoundTrip" =>
    /\ res.st = "ok"
    /\ res.val = arg.value
    /\ res.pos = arg.at + res.written

\* C1 (as claimed): for a field whose type code has no table entry, each of
\* genStructMember, genFieldEncode and genFieldDecode returns (a placeholder) and
\* none throws.
C1_UnsupportedFieldDegrades ==
  (op = "genField" /\ ~HasEntry(arg.type)) =>
    /\ res.member.st = "ok"
    /\ res.encode.st = "ok" /\ res.encode.out.kind = "todo"
    /\ res.decode.st = "ok" /\ res.decode.out.kind = "todo"

\* the response carries no error and exactly the files processRequest returned
OutcomeComplete(stdin, response) ==
  /\ response.error = None
  /\ processRequest(stdin).st = "ok"
  /\ response.file = processRequest(stdin).out.files

\* the response carries a non-empty error and no file
OutcomeError(response) ==
  /\ response.error # None /\ response.error[1] # <<>>
  /\ response.file = <<>>

Referenced(all, field) ==
  SelectSeq(all, LAMBDA m : field.typeName # Undefined
                            /\ m.fullName = StripLeadingDot(field.typeName))

\* the mapEntry metadata a map-entry message supplies: its key and value fields
EntryOf(m) ==
  LET key == SelectSeq(m.fields, LAMBDA f : f.name = N_key)
      value == SelectSeq(m.fields, LAMBDA f : f.name = N_value)
  IN  MapEntry(key[1].type, value[1].type, value[1].typeName)

\* C5 (as claimed): after descriptor construction a field has mapEntry (taken from
\* the key and value fields of the message it refers to) exactly when that message
\* is marked isMapEntry, and such a field is emitted as two parallel sequences.
C5_MapEntryPopulated ==
  op = "extractMessages" =>
    LET all == flattenMessages(res)
    IN  \A i \in 1 .. Len(all) : \A j \in 1 .. Len(all[i].fields) :
          LET field == all[i].fields[j]
              ref == Referenced(all, field)
          IN  IF field.type = 11 /\ ref # <<>> /\ ref[1].isMapEntry
              THEN /\ field.mapEntry = EntryOf(ref[1])
                   /\ Len(genStructMember(field).out) = 2
              ELSE field.mapEntry = Undefined

RECURSIVE PairsOf(_, _)
\* the bytes of (tag, value) pairs: the key before each of the value encodings
PairsOf(key, values) ==
  IF values = <<>> THEN <<>> ELSE key \o Head(values) \o PairsOf(key, Tail(values))

\* a length-delimited value on the wire, shorter than 128 bytes
Framed(bytes) == <<Len(bytes)>> \o bytes

\* an int32 or int64 on the wire: the varint of its 64-bit two's complement
VarintOf(v) == _encode_varint(ToUint(64, v))

\* the parallel sequences of both map fields have equal lengths
Parallel(msg) ==
  /\ Len(msg[M_attrs_keys]) = Len(msg[M_attrs_values])
  /\ Len(msg[M_objs_keys]) = Len(msg[M_objs_values])

\* the entries of attrs (field 4) and of objs (field 5) on the wire
AttrsEntries(msg) ==
  [i \in 1 .. Len(msg[M_attrs_keys]) |->
     Framed(<<8>> \o VarintOf(msg[M_attrs_keys][i])
            \o <<18>> \o Framed(msg[M_attrs_values][i]))]

ObjsEntries(msg) ==
  [i \in 1 .. Len(msg[M_objs_keys]) |->
     Framed(<<10>> \o Framed(msg[M_objs_keys][i])
            \o <<18>> \o Framed(encode("Inner", msg[M_objs_values][i]).bytes))]

\* C6 (as claimed): a Maps value with parallel sequences is encoded as one
\* length-delimited entry per index under the field's tag, key (field 1) before
\* value (field 2), and decoding those bytes ends with the same key and value
\* sequences, in the same order.
C6_MapRoundTrip ==
  (mtype = "Maps" /\ src.kind = "value" /\ Parallel(src.msg)) =>
    /\ pc \in {"decoding", "done"}
    /\ data = PairsOf(<<34>>, AttrsEntries(src.msg)) \o PairsOf(<<42>>, ObjsEntries(src.msg))
    /\ pc = "done" => dmsg = src.msg

\* C7: an Outer is encoded as its id, then tag 18 (field 2, length-delimited), the
\* varint of the length of the child's own encoding, then exactly those bytes;
\* the decode case for the child moves the cursor from the end of the id to the
\* end of those bytes, and the decoded Outer equals the encoded one.
C7_NestedRoundTrip ==
  (mtype = "Outer" /\ src.kind = "value") =>
    LET inner == encode("Inner", src.msg[N_child]).bytes
        idPart == <<8>> \o _encode_varint(src.msg[N_id])
    IN  /\ pc \in {"decoding", "done"}
        /\ data = idPart \o <<18>> \o _encode_varint(FromNat(Len(inner))) \o inner
        /\ iters \in 0 .. 2
        /\ iters = 0 => pos = 0
        /\ iters = 1 => pos = Len(idPart) /\ dmsg[N_id] = src.msg[N_id]
        /\ iters = 2 => pos = Len(data) /\ dmsg = src.msg
        /\ pc = "done" => iters = 2

\* an Outer whose child has a name and a negative delta was encoded and decoded
C7_NestedWitness ==
  /\ mtype = "Outer" /\ pc = "done"
  /\ src.msg[N_child][M_userName] = <<97, 98>>
  /\ src.msg[N_child][N_delta] = FromInt(-1)
  /\ dmsg[N_child] = src.msg[N_child]
  /\ pos = Len(data)

\* a buffer for Inner holding a field it declares, then a field it does not
RecognizedThenUnknown ==
  /\ mtype = "Inner" /\ src.kind = "wire" /\ Len(src.items) = 2
  /\ src.items[1].member # <<>>
  /\ src.items[2].member = <<>>

\* the Inner in which only the first field of the buffer is set
FirstFieldOnly ==
  IF src.items[1].member = N_id
  THEN [ZeroOfType("Inner") EXCEPT ![N_id] = FromNat(src.items[1].num)]
  ELSE [ZeroOfType("Inner") EXCEPT ![M_userName] = src.items[1].str]

\* the decode is past the declared field, has kept its value, and is past the
\* undeclared field exactly when it has done a second iteration
SkippedCleanly ==
  /\ pc \in {"decoding", "done"}
  /\ iters \in 0 .. 2
  /\ iters = 0 => pos = 0
  /\ iters = 1 => pos = Len(src.items[1].bytes) /\ dmsg = FirstFieldOnly
  /\ iters = 2 => pos = Len(data) /\ dmsg = FirstFieldOnly
  /\ pc = "done" => iters = 2

\* C8 (as claimed): whatever the undeclared field's number and whatever wire
\* category its tag carries in its low three bits, the decode does not fail, keeps
\* the declared field's value and leaves the cursor at the end of the skipped field.
C8_AnyUnknownTagSkipped == RecognizedThenUnknown => SkippedCleanly

\* C8 (amended): that holds when the undeclared field's tag carries one of the four
\* wire categories 0, 1, 2, 5, whatever its number; with 3, 4, 6 or 7 the decode
\* reverts at that field, the declared field's value decoded and the cursor at
\* the undeclared field's start.
C8_KnownCategorySkipped ==
  RecognizedThenUnknown =>
    IF src.items[2].wire \in WireTypes THEN SkippedCleanly
    ELSE /\ pc \in {"decoding", "revert"}
         /\ iters \in 0 .. 1
         /\ iters = 1 => pos = Len(src.items[1].bytes) /\ dmsg = FirstFieldOnly
         /\ pc = "revert" => iters = 1

\* the id 5 was decoded, then field 2^29 - 1 (a five-byte tag) was skipped
C8_SkippedWitness ==
  /\ RecognizedThenUnknown /\ pc = "done"
  /\ src.items[2].bytes = <<248, 255, 255, 255, 15, 1>>
  /\ dmsg[N_id] = FromNat(5)
  /\ pos = Len(data)

\* C9 (as claimed): the encoding of a Rep is, for each repeated field in turn, one
\* (tag, value) pair per element in sequence order -- string elements and message
\* elements length-delimited, int32 elements as varints -- and nothing else, so
\* an empty field adds no byte; then the id.
C9_RepeatedEncodePairs ==
  (mtype = "Rep" /\ src.kind = "value") =>
    LET msg == src.msg
        tags == [i \in 1 .. Len(msg[N_tags]) |-> Framed(msg[N_tags][i])]
        nums == [i \in 1 .. Len(msg[N_nums]) |-> VarintOf(msg[N_nums][i])]
        kids == [i \in 1 .. Len(msg[N_kids]) |->
                   Framed(encode("Inner", msg[N_kids][i]).bytes)]
    IN  /\ pc \in {"decoding", "done"}
        /\ data = PairsOf(<<10>>, tags) \o PairsOf(<<16>>, nums) \o PairsOf(<<26>>, kids)
                    \o <<32>> \o _encode_varint(msg[N_id])

\* the value a field on the wire holds for its member
ItemValue(item) ==
  CASE item.member = N_tags -> item.str
    [] item.member = N_nums -> FromInt(item.num)
    [] item.member = N_kids -> InnerOf(item.num)
    [] item.member = N_id -> FromNat(item.num)

\* the values, in wire order, of the fields for a member among the given fields
ValuesOn(items, member) ==
  LET own == SelectSeq(items, LAMBDA item : item.member = member)
  IN  [i \in 1 .. Len(own) |-> ItemValue(own[i])]

\* C10 (as claimed): while a buffer for Rep is decoded, each repeated member holds
\* exactly the values of the fields with its tag among those decoded so far, in
\* wire order -- whatever other fields lie between them -- and the decode of no
\* such buffer fails; a member whose tag does not occur stays empty.
C10_RepeatedDecodeAppends ==
  (mtype = "Rep" /\ src.kind = "wire") =>
    /\ pc \in {"decoding", "done"}
    /\ iters <= Len(src.items)
    /\ pc = "done" => iters = Len(src.items)
    /\ \A member \in {N_tags, N_nums, N_kids} :
         dmsg[member] = ValuesOn(SubSeq(src.items, 1, iters), member)

\* the positions of the runtime library among the files of a response
RuntimeAt(response) ==
  {i \in 1 .. Len(response.file) : response.file[i].name = RuntimeFile.name}

\* the response holds the runtime library exactly once, with the fixed text
RuntimeOnce(response) ==
  /\ Cardinality(RuntimeAt(response)) = 1
  /\ \A i \in RuntimeAt(response) : response.file[i].content = generateRuntime

\* C11 (as claimed): the response of every run holds the runtime file exactly
\* once, whatever the number of schema files requested.
C11_RuntimeInEveryRun ==
  op = "runPlugin" => (res.st = "ok" /\ RuntimeOnce(res.out))

\* C11 (amended): the response of every run in which processRequest returns holds
\* the runtime file exactly once, whether zero, one or many schema files are
\* generated; a run in which processRequest throws answers with no file at all.
C11_RuntimeInEveryReturn ==
  op = "runPlugin" =>
    IF processRequest(arg).st = "ok"
    THEN res.st = "ok" /\ RuntimeOnce(res.out)
    ELSE res.st = "ok" => res.out.file = <<>>

\* two schema files were generated in one run, next to the one runtime file
C11_ManyFilesWitness ==
  /\ op = "runPlugin" /\ res.st = "ok"
  /\ Len(res.out.file) = 3
  /\ RuntimeOnce(res.out)

\* the generated source units of a response: its files other than the runtime library
UnitsIn(response) ==
  SelectSeq(response.file, LAMBDA f : f.name # RuntimeFile.name)

\* the schema file each generated unit was made from, in response order
SourcesIn(response) ==
  [i \in 1 .. Len(UnitsIn(response)) |-> UnitsIn(response)[i].content.source]

\* the names of the request's schema files that are requested for output
WantedNames(stdin) ==
  LET wanted == SelectSeq(stdin.proto_file,
                          LAMBDA f : f.name[1] \in ToSet(stdin.file_to_generate))
  IN  [i \in 1 .. Len(wanted) |-> wanted[i].name[1]]

\* of those, the names of the schema files that declare a message
WantedWithMessages(stdin) ==
  LET wanted == SelectSeq(stdin.proto_file,
                          LAMBDA f : /\ f.name[1] \in ToSet(stdin.file_to_generate)
                                     /\ f.message_type # <<>>)
  IN  [i \in 1 .. Len(wanted) |-> wanted[i].name[1]]

\* a run that returned, on a request whose schema files are pairwise distinct
ReturnedRun ==
  /\ op = "runPlugin" /\ processRequest(arg).st = "ok" /\ res.st = "ok"
  /\ \A i, j \in 1 .. Len(arg.proto_file) :
        arg.proto_file[i].name = arg.proto_file[j].name => i = j

\* the number of units of a response made from the schema file of a name
UnitsFor(response, name) ==
  Cardinality({i \in 1 .. Len(SourcesIn(response)) : SourcesIn(response)[i] = name})

AfterLastSlash(name) ==
  LET slashes == {i \in 1 .. Len(name) : name[i] = "/"}
  IN  IF slashes = {} THEN name
      ELSE SubSeq(name, (CHOOSE i \in slashes : \A j \in slashes : j <= i) + 1, Len(name))

\* the base name: the directory part and the ".proto" extension removed
BaseNameOf(name) ==
  LET last == AfterLastSlash(name)
  IN  IF EndsWith(last, Chars_proto)
      THEN SubSeq(last, 1, Len(last) - Len(Chars_proto)) ELSE last

RECURSIVE PascalOf(_, _)
\* PascalCase read left to right: "_", "-" and "." are dropped and the character
\* that starts the name or follows one of them is put in upper case
PascalOf(chars, up) ==
  IF chars = <<>> THEN <<>>
  ELSE IF Head(chars) \in {"_", "-", "."} THEN PascalOf(Tail(chars), TRUE)
  ELSE <<IF up THEN ToUpperCase(Head(chars)) ELSE Head(chars)>>
         \o PascalOf(Tail(chars), FALSE)

C14_ThrowsOrSameType ==
  op = "resolveSolType" =>
    IF ~HasEntry(arg[1]) THEN res.st = "throw"
    ELSE /\ res.st = "ok"
         /\ \A typeName \in TypeNames : resolveSolType(arg[1], typeName) = res

\* C14 (amended): resolveSolType throws for every code without a table entry,
\* whatever the type name; for every scalar code with an entry it returns the
\* entry's target type, whatever the type name; for message (11) it returns the
\* last segment of the type name, or the entry's empty target type when the field
\* carries no type name.
C14_ThrowsOrEntryType ==
  op = "resolveSolType" =>
    IF ~HasEntry(arg[1])
    THEN /\ arg[1] \notin 1 .. 18 \/ arg[1] = 10
         /\ res.st = "throw"
         /\ res.out = <<"Unsupported protobuf field type: ", arg[1]>>
    ELSE IF arg[1] # 11
    THEN /\ res.st = "ok"
         /\ res.out = PROTO_TYPE_MAP[arg[1]].solType
         /\ res.out # ""
         /\ \A typeName \in TypeNames : resolveSolType(arg[1], typeName) = res
    ELSE res = Returned(IF arg[2] \in {Undefined, <<"">>} THEN ""
                        ELSE arg[2][Len(arg[2])])

\* the lookup of group (10) with a type name threw
C14_GroupThrowsWitness ==
  /\ op = "resolveSolType"
  /\ arg = <<10, T_Inner>>
  /\ res.st = "throw"

\* the fields of every message of the converted trees
FieldsOf(all) ==
  UNION {{all[i].fields[j] : j \in 1 .. Len(all[i].fields)} : i \in 1 .. Len(all)}

\* C15 (as claimed): every field that descriptor construction produces has a number
\* of at least 1, also when the input field omits its number, so that every tag
\* computed for a field is at least 8 (number 1, wire type 0).
C15_FieldNumberPositive ==
  op = "extractMessages" =>
    \A field \in FieldsOf(flattenMessages(res)) :
      /\ field.number >= 1
      /\ (HasEntry(field.type) /\ genFieldEncode(field).st = "ok") =>
           ToNat(genFieldEncode(field).out.tag.mag) >= 8

RECURSIVE RawPreorder(_)
\* every message of the input trees, a parent before its nested messages, in
\* declaration order
RawPreorder(raws) ==
  IF raws = <<>> THEN <<>>
  ELSE <<Head(raws)>> \o RawPreorder(Head(raws).nested_type) \o RawPreorder(Tail(raws))

\* the names of the input messages not marked map_entry, in that order
VisibleNames(raws) ==
  LET visible == SelectSeq(RawPreorder(raws), LAMBDA r : r.map_entry # Some(TRUE))
  IN  [i \in 1 .. Len(visible) |-> visible[i].name[1]]

RECURSIVE Mirrors(_, _, _)
\* the converted message is the input message: its name, its qualified name under
\* the parent, its fields and its nested messages, one for one and in order
Mirrors(raw, msg, parent) ==
  /\ msg.name = raw.name[1]
  /\ msg.fullName = (IF parent \in {Undefined, <<"">>} THEN <<>> ELSE parent) \o <<raw.name[1]>>
  /\ msg.isMapEntry = (raw.map_entry = Some(TRUE))
  /\ Len(msg.fields) = Len(raw.field)
  /\ \A j \in 1 .. Len(raw.field) : Some(msg.fields[j].name) = raw.field[j].name
  /\ Len(msg.nestedMessages) = Len(raw.nested_type)
  /\ \A k \in 1 .. Len(raw.nested_type) :
        Mirrors(raw.nested_type[k], msg.nestedMessages[k], msg.fullName)

\* the names of the codec units generated for the converted trees
UnitNames(source) == [i \in 1 .. Len(source.units) |-> source.units[i].name]

\* C16: the trees handed to the assembler hold every input message once, in
\* declaration order and under its parent, down to depth 3; when generation
\* succeeds, the codec units are those of the messages not marked isMapEntry,
\* nested ones included, each once, and none is for a map-entry message.
C16_UnitPerMessage ==
  op = "extractMessages" =>
    /\ Len(res) = Len(arg.message_type)
    /\ \A i \in 1 .. Len(res) :
         Mirrors(arg.message_type[i], res[i], OrElse(arg.package, <<"">>))
    /\ generateSolFile(res, arg.name[1]).st = "ok" =>
         /\ UnitNames(generateSolFile(res, arg.name[1]).out) = VisibleNames(arg.message_type)
         /\ \A i, j \in 1 .. Len(VisibleNames(arg.message_type)) :
              VisibleNames(arg.message_type)[i] = VisibleNames(arg.message_type)[j] => i = j

\* Outer with a child and a map field, Inner in it, Deep in Inner: three units,
\* none for AttrsEntry
C16_DepthThreeWitness ==
  /\ op = "extractMessages"
  /\ Len(arg.message_type[1].field) = 3
  /\ arg.message_type[1].nested_type[1].nested_type[1].name = Some("Deep")
  /\ res[1].nestedMessages[1].nestedMessages[1].fullName = <<"pkg", "Outer", "Inner", "Deep">>
  /\ res[1].nestedMessages[2].isMapEntry
  /\ generateSolFile(res, arg.name[1]).st = "ok"
  /\ UnitNames(generateSolFile(res, arg.name[1]).out) = <<"Outer", "Inner", "Deep">>

\* the request for one schema file alone, with no parameter
Alone(protoFile) == Request(Decoded, <<>>, <<protoFile.name[1]>>, <<protoFile>>)

EntryKey(item) == IF item.member = N_attrs THEN FromNat(item.num) ELSE item.str
EntryValue(item) == IF item.member = N_attrs THEN item.str ELSE InnerOf(item.num)

\* the entries for a map field among the given ones, in wire order
EntriesOn(items, member) == SelectSeq(items, LAMBDA item : item.member = member)

\* the keys and the values of those entries
KeysOn(items, member) ==
  [i \in 1 .. Len(EntriesOn(items, member)) |-> EntryKey(EntriesOn(items, member)[i])]

ValsOn(items, member) ==
  [i \in 1 .. Len(EntriesOn(items, member)) |-> EntryValue(EntriesOn(items, member)[i])]

\* the number of entries before the first one with a stray tag
CleanPrefix(items) ==
  IF \A i \in 1 .. Len(items) : items[i] \notin MapsStrayItems THEN Len(items)
  ELSE (CHOOSE i \in 1 .. Len(items) :
          /\ items[i] \in MapsStrayItems
          /\ \A j \in 1 .. (i - 1) : items[j] \notin MapsStrayItems) - 1

\* a buffer of map entries is being decoded, or was
MapsOffWire == mtype = "Maps" /\ src.kind = "wire"

C19_ParallelLengths ==
  MapsOffWire =>
    /\ Parallel(dmsg)
    /\ Len(dmsg[M_attrs_keys]) + Len(dmsg[M_objs_keys]) = iters
    /\ encode("Maps", dmsg).st = "ok"
    /\ encode("Maps", dmsg).bytes =
         PairsOf(<<34>>, AttrsEntries(dmsg)) \o PairsOf(<<42>>, ObjsEntries(dmsg))

\* one entry was decoded and the next one reverted: one key and one value
C19_RevertedEntryWitness ==
  /\ MapsOffWire /\ pc = "revert"
  /\ iters = 1 /\ Len(src.items) = 2
  /\ Len(dmsg[M_attrs_keys]) = 1 /\ Len(dmsg[M_attrs_values]) = 1

\* C20 (as claimed): a schema file's output path is the path of no other schema
\* file name of the same package, and is not the runtime library's.
C20_DistinctOutputPaths ==
  op = "protoFileToSolFile" =>
    /\ res # RuntimeFile.name
    /\ \A other \in NameInputs :
         other # arg[1] => protoFileToSolFile(other, arg[2]) # res

\* C21 (as claimed): for every scalar entry of the table, the parameter type of
\* the entry's encode primitive and the return type of its decode primitive are
\* the entry's target type, so a member's value is passed and received as it is.
C21_PrimitiveTypesMatch ==
  op = "scalarRoundTrip" =>
    /\ PrimType[PROTO_TYPE_MAP[arg.code].encodeFunc] = PROTO_TYPE_MAP[arg.code].solType
    /\ PrimType[PROTO_TYPE_MAP[arg.code].decodeFunc] = PROTO_TYPE_MAP[arg.code].solType

=============================================================================
